---- MODULE Spec2Model ----
(***************************************************************************)
(* Model of the multi-stage reasoning pipeline of NovelVerified.AI         *)
(* (agents/reasoning_agent.py, agents/constraint_types.py), of its local   *)
(* variant (agents/reasoning_agent_local.py) and of the batch loop of      *)
(* main(); of the results aggregator (agents/results_aggregator.py), the   *)
(* retry delay of call_llm, and the pipeline control of the web service    *)
(* (flask_api/pipeline.py, flask_api/pipeline_api.py).                     *)
(*                                                                         *)
(* Confidences are Python floats in the source.  They are modelled as      *)
(* fixed-point integers in thousandths: 0.4 is 400, 0.95 is 950, and       *)
(* x * 0.9 is (x * 9) \div 10, which is exact on the value sets used       *)
(* here (all multiples of 10).                                             *)
(***************************************************************************)
EXTENDS Integers, Sequences, FiniteSets, TLC

VARIABLES
    \* synthesize_verdict called on its own (tests/test_reasoning_agent.py)
    syn_args,       \* the six arguments of the call
    syn_ret,        \* <<>> before the call returns, <<result>> after
    local_syn_ret   \* the same for synthesize_verdict of reasoning_agent_local.py

VARIABLES
    \* process_claim of reasoning_agent.py working on one claim
    claim_data,     \* the evidence file of the claim (retriever_agent.py output)
    stage,          \* the last stage the ClaimAnalysis has completed
    status,         \* "running", "returned" or "raised" (an exception left process_claim)
    attempt,        \* loop index of call_llm's for-loop in the call in progress
    llm_result,     \* what call_llm returned to the stage that called it last
    caught,         \* the except clause that ended the last pass of call_llm's loop
    slept,          \* whether the last pass of the loop called time.sleep(delay)
    text_form,      \* the shape of the response text of the last pass ("none": no response)
    analysis,       \* the ClaimAnalysis object
    sup,            \* (support_conf, support_reason, support_excerpts)
    con,            \* (contradict_conf, contradict_reason, contradict_excerpts, violation_type)
    output          \* <<>> until process_claim returns, then <<the output dict>>

VARIABLES
    \* main() of reasoning_agent.py: batch runs over the evidence directory
    evidence_dir,   \* the stems of evidence/*.json (retriever_agent.py names a file by its claim_id)
    verdicts_dir,   \* verdicts/*.json: stem -> the record written there
    main_pc,        \* "idle", "loop" (in the for-loop), "returned" or "raised"
    run,            \* number of batch runs started
    processed,      \* the set main() computed at line 409 of the run in progress
    remaining,      \* the files the for-loop of the run has still to visit
    passed,         \* the claims handed to process_claim in this run, in order
    written         \* the output files written in this run

VARIABLES
    \* main() of results_aggregator.py
    verdict_files,  \* verdicts/*.json: stem -> the "verdict" entry of the file
    agg_pc,         \* "idle" or "returned"
    results_csv     \* the rows of output/results.csv, <<>> while it is not written

VARIABLES
    \* exponential_backoff_delay of reasoning_agent.py
    backoff_calls   \* the last calls made, each with the attempt and the delay returned

VARIABLES
    \* flask_api/pipeline.py and the endpoints of flask_api/pipeline_api.py
    pipeline_status,    \* the module global _pipeline_status
    pipeline_process,   \* the module global _pipeline_process: None, or the Popen object of a worker
    procs,              \* the subprocess of each worker
    workers,            \* the threads run_pipeline_async and run_single_stage have started
    held,               \* the copy a pipeline_status() request holds between its two steps
    reset_pc,           \* "idle", or "checked" when a reset_pipeline() request is past its test
    ret                 \* what the last run, stage, cancel or reset request returned

aggVars == <<verdict_files, agg_pc, results_csv>>

backoffVars == <<backoff_calls>>

flaskVars == <<pipeline_status, pipeline_process, procs, workers, held, reset_pc, ret>>

extVars == <<aggVars, backoffVars, flaskVars>>

synVars == <<syn_args, syn_ret, local_syn_ret>>

mainVars == <<evidence_dir, verdicts_dir, main_pc, run, processed, remaining, passed, written>>

pcVars == <<claim_data, stage, status, attempt, llm_result, caught, slept, text_form, analysis, sup, con, output>>

vars == <<syn_args, syn_ret, local_syn_ret,
          evidence_dir, verdicts_dir, main_pc, run, processed, remaining, passed, written,
          claim_data, stage, status, attempt, llm_result, caught, slept, text_form, analysis, sup, con, output,
          verdict_files, agg_pc, results_csv, backoff_calls,
          pipeline_status, pipeline_process, procs, workers, held, reset_pc, ret>>

(***************************************************************************)
(* Program constants (reasoning_agent.py)                                  *)
(***************************************************************************)
MAX_RETRIES == 5

CONTRADICTION_THRESHOLD == 400

STRONG_SUPPORT_THRESHOLD == 700

WEAK_CONTRADICTION_THRESHOLD == 250

(***************************************************************************)
(* Bounds of the model                                                     *)
(***************************************************************************)
\* longest list of sub-claim verdicts handed to synthesize_verdict
MaxSubClaims == 2

\* longest array of items the decomposition call returns
MaxItems == 2

\* most evidence passages of one claim
MaxEvidence == 1

\* most evidence passages of a claim when the bucketing is explored on its own
MaxPassages == 3

\* most evidence files in the evidence directory
MaxClaims == 2

\* most batch runs of main()
MaxRuns == 2

Min(a, b) == IF a < b THEN a ELSE b

Max(a, b) == IF a > b THEN a ELSE b

SeqsUpTo(S, n) == UNION {[1..k -> S] : k \in 0..n}

(***************************************************************************)
(* constraint_types.py: the vocabularies                                   *)
(***************************************************************************)
ConstraintType == {"temporal", "capability", "commitment", "world_rule", "psychological", "factual"}

Verdict == {"supported", "contradicted", "undetermined"}

\* Optional[Verdict] = None
NoVerdict == "None"

\* the generated id f"SC{n}"
SCn(n) == "SC" \o ToString(n)

\* SubClaim(id, text, constraint_type, parent_claim_id) with the dataclass defaults
SubClaim(id, text, constraint_type, parent_claim_id) ==
    [id |-> id, text |-> text, constraint_type |-> constraint_type,
     parent_claim_id |-> parent_claim_id, verdict |-> NoVerdict, confidence |-> 0]

(***************************************************************************)
(* JSON values as json.loads returns them, and the Python operations the   *)
(* pipeline applies to them.  call_llm's failure value None is JNull.      *)
(***************************************************************************)
JNull == [t |-> "null"]

JNum(n) == [t |-> "number", n |-> n]

JStr(s) == [t |-> "string", s |-> s]

JList(items) == [t |-> "list", items |-> items]

JDict(f) == [t |-> "dict", f |-> f]

\* the empty dict {}
NoFields == [k \in {} |-> JNull]

\* Python truthiness of a value (`not result`, `if contradict_excerpts`)
Truthy(j) ==
    CASE j.t = "null" -> FALSE
      [] j.t = "number" -> j.n # 0
      [] j.t = "string" -> j.s # ""
      [] j.t = "list" -> Len(j.items) > 0
      [] j.t = "dict" -> DOMAIN j.f # {}

\* dict.get(key, default)
Get(d, key, default) == IF key \in DOMAIN d.f THEN d.f[key] ELSE default

\* the numeric strings float() accepts, with the value it returns
NumericStrings == ("0.8" :> 800) @@ ("0.45" :> 450)

\* float(j) returns (it raises ValueError or TypeError otherwise)
float_ok(j) == j.t = "number" \/ (j.t = "string" /\ j.s \in DOMAIN NumericStrings)

float_value(j) == IF j.t = "number" THEN j.n ELSE NumericStrings[j.s]

\* str.lower() on the labels used here
Lower(s) == IF s = "TEMPORAL" THEN "temporal" ELSE IF s = "Factual" THEN "factual" ELSE s

\* seq[:n]
Take(seq, n) == SubSeq(seq, 1, Min(n, Len(seq)))

(***************************************************************************)
(* call_llm: one pass of the for-loop.  o is what the attempt met: an      *)
(* exception of client.messages.create, or the text of the response.       *)
(***************************************************************************)
TransientErrors == {"RateLimitError", "APIConnectionError"}

\* the shapes of response text: bare JSON, JSON inside a ``` fence, JSON
\* inside a sentence of commentary, and text that holds no JSON
TextForms == {"json", "fenced json", "json in prose", "not json"}

\* what one attempt can meet: payloads arrive as bare JSON; the payloads
\* of wrapped also arrive inside a fence or inside commentary
LlmOutcomes(payloads, wrapped) ==
    [kind : TransientErrors \cup {"APIError"}, form : {"not json"}, json : {JNull}]
        \cup [kind : {"text"}, form : {"json"}, json : payloads]
        \cup [kind : {"text"}, form : {"fenced json", "json in prose"}, json : wrapped]
        \cup [kind : {"text"}, form : {"not json"}, json : {JNull}]

\* lines 109-117: strip the ``` lines of a fenced response, then json.loads
json_loads(o) ==
    IF o.form \in {"json", "fenced json"}
    THEN [ok |-> TRUE, value |-> o.json]
    ELSE [ok |-> FALSE, value |-> JNull]

\* range(MAX_RETRIES + 1): one pass too many
call_llm_one_more_attempt(att, o) ==
    IF o.kind \in TransientErrors
    THEN [retry |-> att < MAX_RETRIES, result |-> JNull, caught |-> "transient", form |-> "none"]
    ELSE IF o.kind # "text"
    THEN [retry |-> FALSE, result |-> JNull, caught |-> "Exception", form |-> "none"]
    ELSE IF json_loads(o).ok
    THEN [retry |-> FALSE, result |-> json_loads(o).value, caught |-> "none", form |-> o.form]
    ELSE [retry |-> FALSE, result |-> JNull, caught |-> "JSONDecodeError", form |-> o.form]

\* the pass of the loop with index att.  retry: the loop sleeps and goes on;
\* otherwise call_llm returns result from this pass (after the sleep, when the
\* loop has run out).  caught: the except clause the pass went through
call_llm(att, o) ==
    IF o.kind \in TransientErrors
    THEN [retry |-> att + 1 < MAX_RETRIES, result |-> JNull, caught |-> "transient", form |-> "none"]
    ELSE IF o.kind # "text"
    THEN [retry |-> FALSE, result |-> JNull, caught |-> "Exception", form |-> "none"]
    ELSE IF json_loads(o).ok
    THEN [retry |-> FALSE, result |-> json_loads(o).value, caught |-> "none", form |-> o.form]
    ELSE [retry |-> FALSE, result |-> JNull, caught |-> "JSONDecodeError", form |-> o.form]

(***************************************************************************)
(* Stage 1: decompose_claim                                                *)
(***************************************************************************)
single_sub_claim(cd) == <<SubClaim("SC1", cd.claim_text, "factual", cd.claim_id)>>

\* the for-loop over the items; raised: item.get or .lower() met a value
\* without that attribute (AttributeError is not caught)
RECURSIVE decompose_items(_, _, _)
decompose_items(items, sub_claims, cd) ==
    IF items = <<>>
    THEN [raised |-> FALSE, value |-> sub_claims]
    ELSE LET item == Head(items)
         IN IF item.t # "dict"
            THEN [raised |-> TRUE, value |-> <<>>]
            ELSE LET type == Get(item, "type", JStr("factual"))
                 IN IF type.t # "string"
                    THEN [raised |-> TRUE, value |-> <<>>]
                    ELSE LET constraint_type ==
                                 IF Lower(type.s) \in ConstraintType THEN Lower(type.s) ELSE "factual"
                             id == Get(item, "id", JStr(SCn(Len(sub_claims) + 1))).s
                             text == Get(item, "text", JStr("")).s
                         IN decompose_items(Tail(items),
                                Append(sub_claims, SubClaim(id, text, constraint_type, cd.claim_id)), cd)

decompose_claim(result, cd) ==
    IF ~Truthy(result) \/ result.t # "list"
    THEN [raised |-> FALSE, value |-> single_sub_claim(cd)]
    ELSE LET r == decompose_items(result.items, <<>>, cd)
         IN IF r.raised \/ r.value # <<>>
            THEN r
            ELSE [raised |-> FALSE, value |-> single_sub_claim(cd)]

(***************************************************************************)
(* Stage 2: the two evaluators                                             *)
(***************************************************************************)
NoSupport == [raised |-> TRUE, conf |-> 0, reason |-> "", excerpts |-> JList(<<>>)]

evaluate_for_support(result) ==
    IF ~Truthy(result)
    THEN [raised |-> FALSE, conf |-> 0, reason |-> "Failed to analyze support", excerpts |-> JList(<<>>)]
    ELSE IF result.t # "dict"
    THEN NoSupport
    ELSE IF ~float_ok(Get(result, "support_confidence", JNum(0)))
    THEN NoSupport
    ELSE [raised |-> FALSE,
          conf |-> float_value(Get(result, "support_confidence", JNum(0))),
          reason |-> Get(result, "support_reasoning", JStr("No reasoning")).s,
          excerpts |-> Get(result, "supporting_excerpts", JList(<<>>))]

NoContradiction ==
    [raised |-> TRUE, conf |-> 0, reason |-> "", excerpts |-> JList(<<>>), violation_type |-> JStr("none")]

evaluate_for_contradiction(result) ==
    IF ~Truthy(result)
    THEN [raised |-> FALSE, conf |-> 0, reason |-> "Failed to analyze contradiction",
          excerpts |-> JList(<<>>), violation_type |-> JStr("none")]
    ELSE IF result.t # "dict"
    THEN NoContradiction
    ELSE IF ~float_ok(Get(result, "contradiction_confidence", JNum(0)))
    THEN NoContradiction
    ELSE [raised |-> FALSE,
          conf |-> float_value(Get(result, "contradiction_confidence", JNum(0))),
          reason |-> Get(result, "contradiction_reasoning", JStr("No reasoning")).s,
          excerpts |-> Get(result, "contradicting_excerpts", JList(<<>>)),
          violation_type |-> Get(result, "violation_type", JStr("none"))]

(***************************************************************************)
(* Stage 3: synthesize_verdict.  The reasoning string is kept as its       *)
(* fixed prefix (kind) and the values it interpolates (cites).             *)
(***************************************************************************)
\* a copy-paste slip: rule 1 compares with the support threshold
strong_contradiction_high(contradict_conf) == contradict_conf > STRONG_SUPPORT_THRESHOLD

\* rule 1: contradict_conf > CONTRADICTION_THRESHOLD
strong_contradiction(contradict_conf) == contradict_conf > CONTRADICTION_THRESHOLD

\* the cap of 0.95 forgotten
contradicted_confidence_uncapped(contradict_conf) == contradict_conf + 100

\* rule 1: confidence = min(0.95, contradict_conf + 0.1)
contradicted_confidence(contradict_conf) == Min(950, contradict_conf + 100)

\* >= written for > on the support threshold
strong_clean_support_inclusive(support_conf, contradict_conf) ==
    support_conf >= STRONG_SUPPORT_THRESHOLD /\ contradict_conf < WEAK_CONTRADICTION_THRESHOLD

\* the test of the contradiction confidence forgotten
strong_clean_support_any_contradiction(support_conf, contradict_conf) ==
    support_conf > STRONG_SUPPORT_THRESHOLD

\* rule 2: support_conf > STRONG_SUPPORT_THRESHOLD and contradict_conf < WEAK_CONTRADICTION_THRESHOLD
strong_clean_support(support_conf, contradict_conf) ==
    support_conf > STRONG_SUPPORT_THRESHOLD /\ contradict_conf < WEAK_CONTRADICTION_THRESHOLD

\* the floor of 0.3 forgotten
undetermined_confidence_no_floor(support_conf) == Min(support_conf, 500)

\* rule 3: confidence = max(0.3, min(support_conf, 0.5))
undetermined_confidence(support_conf) == Max(300, Min(support_conf, 500))

\* the sub-claims given a vote: rule 3 turns to CONTRADICTED when a sub-claim is
\* contradicted and none is supported
synthesize_verdict_sub_claims_vote(support_conf, support_reason, contradict_conf, contradict_reason, violation_type, sub_claims) ==
    IF strong_contradiction(contradict_conf)
    THEN [verdict |-> "contradicted",
          confidence |-> contradicted_confidence(contradict_conf),
          reasoning |-> [kind |-> "Contradiction found", cites |-> <<violation_type, contradict_reason>>]]
    ELSE IF strong_clean_support(support_conf, contradict_conf)
    THEN [verdict |-> "supported",
          confidence |-> (support_conf * 9) \div 10,
          reasoning |-> [kind |-> "Evidence supports claim", cites |-> <<support_reason>>]]
    ELSE LET sub_verdicts == SelectSeq([i \in 1..Len(sub_claims) |-> sub_claims[i].verdict],
                                       LAMBDA v : v # NoVerdict)
             has_support == \E i \in 1..Len(sub_verdicts) : sub_verdicts[i] = "supported"
             has_contradict == \E i \in 1..Len(sub_verdicts) : sub_verdicts[i] = "contradicted"
         IN [verdict |-> IF has_contradict /\ ~has_support THEN "contradicted" ELSE "undetermined",
             confidence |-> undetermined_confidence(support_conf),
             reasoning |->
                 IF has_support /\ has_contradict
                 THEN [kind |-> "Mixed evidence", cites |-> <<>>]
                 ELSE IF support_conf > contradict_conf
                 THEN [kind |-> "Weak support without clear contradiction", cites |-> <<support_reason>>]
                 ELSE [kind |-> "Insufficient evidence to verify claim", cites |-> <<>>]]

synthesize_verdict(support_conf, support_reason, contradict_conf, contradict_reason, violation_type, sub_claims) ==
    IF strong_contradiction(contradict_conf)
    THEN [verdict |-> "contradicted",
          confidence |-> contradicted_confidence(contradict_conf),
          reasoning |-> [kind |-> "Contradiction found", cites |-> <<violation_type, contradict_reason>>]]
    ELSE IF strong_clean_support(support_conf, contradict_conf)
    THEN [verdict |-> "supported",
          confidence |-> (support_conf * 9) \div 10,
          reasoning |-> [kind |-> "Evidence supports claim", cites |-> <<support_reason>>]]
    ELSE LET sub_verdicts == SelectSeq([i \in 1..Len(sub_claims) |-> sub_claims[i].verdict],
                                       LAMBDA v : v # NoVerdict)
             has_support == \E i \in 1..Len(sub_verdicts) : sub_verdicts[i] = "supported"
             has_contradict == \E i \in 1..Len(sub_verdicts) : sub_verdicts[i] = "contradicted"
         IN [verdict |-> "undetermined",
             confidence |-> undetermined_confidence(support_conf),
             reasoning |->
                 IF has_support /\ has_contradict
                 THEN [kind |-> "Mixed evidence", cites |-> <<>>]
                 ELSE IF support_conf > contradict_conf
                 THEN [kind |-> "Weak support without clear contradiction", cites |-> <<support_reason>>]
                 ELSE [kind |-> "Insufficient evidence to verify claim", cites |-> <<>>]]

(***************************************************************************)
(* process_claim                                                           *)
(***************************************************************************)
\* the stages of a ClaimAnalysis, in the order process_claim goes through them
Stages == <<"CREATED", "DECOMPOSED", "EVIDENCE_BUCKETED", "SUPPORT_EVALUATED", "CONTRADICTION_EVALUATED", "SYNTHESIZED">>

\* ClaimAnalysis(claim_id, claim_text, character, book_name) with the dataclass defaults
ClaimAnalysis(cd) ==
    [claim_id |-> cd.claim_id, claim_text |-> cd.claim_text,
     sub_claims |-> <<>>,
     early_evidence |-> <<>>, mid_evidence |-> <<>>, late_evidence |-> <<>>,
     violations |-> <<>>,
     support_score |-> 0, contradiction_score |-> 0,
     verdict |-> "undetermined", confidence |-> 0,
     reasoning |-> [kind |-> "", cites |-> <<>>]]

\* e.get("temporal_slice", "MID"); "ABSENT" stands for a passage without the key
slice_name(e) == IF e.temporal_slice = "ABSENT" THEN "MID" ELSE e.temporal_slice

\* `if` written for `elif`: an EARLY passage falls through to the else branch too
bucket_evidence_if_chain(a, evidence) ==
    [a EXCEPT
        !.early_evidence = a.early_evidence \o SelectSeq(evidence, LAMBDA e : slice_name(e) = "EARLY"),
        !.late_evidence = a.late_evidence \o SelectSeq(evidence, LAMBDA e : slice_name(e) = "LATE"),
        !.mid_evidence = a.mid_evidence \o SelectSeq(evidence, LAMBDA e : slice_name(e) # "LATE")]

\* lines 323-330: the evidence appended to the three buckets in retrieval order
bucket_evidence(a, evidence) ==
    [a EXCEPT
        !.early_evidence = a.early_evidence \o SelectSeq(evidence, LAMBDA e : slice_name(e) = "EARLY"),
        !.late_evidence = a.late_evidence \o SelectSeq(evidence, LAMBDA e : slice_name(e) = "LATE"),
        !.mid_evidence = a.mid_evidence \o SelectSeq(evidence, LAMBDA e : slice_name(e) \notin {"EARLY", "LATE"})]

\* >= written for > on the DEFINITE threshold
severity_inclusive(contradict_conf) ==
    IF contradict_conf >= 600 THEN "DEFINITE" ELSE IF contradict_conf > 400 THEN "LIKELY" ELSE "POSSIBLE"

\* line 354
severity(contradict_conf) ==
    IF contradict_conf > 600 THEN "DEFINITE" ELSE IF contradict_conf > 400 THEN "LIKELY" ELSE "POSSIBLE"

\* the test of the category forgotten
records_violation_any_category(contradict_conf, violation_type) == contradict_conf > 300

\* line 347
records_violation(contradict_conf, violation_type) ==
    contradict_conf > 300 /\ violation_type # JStr("none")

\* x[0] and x[:3] return (they raise TypeError on a number)
subscriptable(j) == j.t \in {"list", "string"}

\* lines 343-355: the scores, then the violation.  raised: contradict_excerpts[0]
\* on a value that cannot be indexed, before anything is appended
track_violations(a, s, c) ==
    LET scored == [a EXCEPT !.support_score = s.conf, !.contradiction_score = c.conf]
    IN IF ~records_violation(c.conf, c.violation_type)
       THEN [raised |-> FALSE, value |-> scored]
       ELSE IF Truthy(c.excerpts) /\ ~subscriptable(c.excerpts)
       THEN [raised |-> TRUE, value |-> scored]
       ELSE [raised |-> FALSE,
             value |-> [scored EXCEPT !.violations = Append(@,
                 [sub_claim_id |-> "MAIN",
                  constraint_type |-> IF c.violation_type \in {JStr(v) : v \in ConstraintType}
                                      THEN c.violation_type.s ELSE "factual",
                  description |-> c.reason,
                  novel_excerpt |-> IF Truthy(c.excerpts) THEN c.excerpts.items[1] ELSE JStr(""),
                  novel_position |-> "UNKNOWN",
                  severity |-> severity(c.conf)])]]

\* ClaimAnalysis.to_dict (the evidence buckets are serialised as their sizes)
to_dict(a) ==
    [claim_id |-> a.claim_id, claim_text |-> a.claim_text,
     sub_claims |-> a.sub_claims,
     temporal_evidence |-> [early |-> Len(a.early_evidence), mid |-> Len(a.mid_evidence),
                            late |-> Len(a.late_evidence)],
     violations |-> a.violations,
     support_score |-> a.support_score, contradiction_score |-> a.contradiction_score,
     verdict |-> a.verdict, confidence |-> a.confidence, reasoning |-> a.reasoning]

\* lines 365-374: the output dict.  raised: excerpts[:3] on a value that cannot be
\* sliced.  The rounded "confidence" entry is left out: round(x, 2) depends on the
\* binary value of the float, which the fixed-point values do not carry.
build_output(a, s, c) ==
    IF ~subscriptable(s.excerpts) \/ ~subscriptable(c.excerpts)
    THEN [raised |-> TRUE, value |-> <<>>]
    ELSE [raised |-> FALSE,
          value |-> <<[claim_id |-> a.claim_id, verdict |-> a.verdict,
                       supporting_spans |-> Take(s.excerpts.items, 3),
                       contradicting_spans |-> Take(c.excerpts.items, 3),
                       reasoning |-> a.reasoning,
                       analysis |-> to_dict(a)]>>]

(***************************************************************************)
(* What the outside supplies: the evidence file and the responses          *)
(***************************************************************************)
Slices == {"EARLY", "MID", "LATE", "ABSENT"}

\* retriever_agent.py writes claim_id, claim_text, character, book_name and, for
\* every passage, text and temporal_slice.  The claims the whole pipeline is run
\* on have passages of one slice or without the key; BucketClaimData has them all
ClaimData ==
    {[claim_id |-> "claim-1", claim_text |-> "the claim text",
      evidence |-> [i \in 1..Len(sl) |-> [chunk_id |-> i, temporal_slice |-> sl[i]]]]
        : sl \in SeqsUpTo({"EARLY", "ABSENT"}, MaxEvidence)}

\* claims with up to MaxPassages passages
BucketClaimData ==
    {[claim_id |-> "claim-1", claim_text |-> "the claim text",
      evidence |-> [i \in 1..Len(sl) |-> [chunk_id |-> i, temporal_slice |-> sl[i]]]]
        : sl \in SeqsUpTo(Slices, MaxPassages)}

\* a key the response leaves out
Absent == [t |-> "absent"]

Field(key, v) == IF v = Absent THEN NoFields ELSE (key :> v)

FourExcerpts == JList(<<JStr("e1"), JStr("e2"), JStr("e3"), JStr("e4")>>)

\* the items of a decomposition array: objects with or without each key, a type
\* in or out of the vocabulary or not a string, and a bare string
DecomposeItems ==
    {JDict(Field("id", id) @@ Field("text", text) @@ Field("type", type)) :
        id \in {Absent, JStr("SC1"), JStr("SC2")},
        text \in {Absent, JStr(""), JStr("a sub-claim")},
        type \in {Absent, JStr("TEMPORAL"), JStr("capability"), JStr("bogus"), JNull}}
    \cup {JStr("a sub-claim")}

\* every array of at most MaxItems items, and the values that are no array
DecomposePayloads ==
    {JList(items) : items \in SeqsUpTo(DecomposeItems, MaxItems)}
        \cup {JNull, JDict(NoFields), JDict("sub_claims" :> JList(<<>>)), JNum(7)}

GoodDecomposition ==
    JList(<<JDict(("id" :> JStr("SC1")) @@ ("text" :> JStr("a sub-claim")) @@ ("type" :> JStr("TEMPORAL")))>>)

\* the decomposition responses met when the whole pipeline is explored
FewDecomposePayloads ==
    {JNull, JList(<<>>), JNum(7), JList(<<JStr("a sub-claim")>>),
     GoodDecomposition,
     JList(<<JDict("type" :> JStr("bogus")), JDict("text" :> JStr("a sub-claim"))>>)}

DecomposeOutcomes == LlmOutcomes(DecomposePayloads, {GoodDecomposition})

FewDecomposeOutcomes == LlmOutcomes(FewDecomposePayloads, {GoodDecomposition})

ValuesNoDict == {JNull, JDict(NoFields), JList(<<JStr("e1")>>), JNum(1)}

SupportPayloads ==
    {JDict(Field("support_confidence", conf) @@ ("support_reasoning" :> JStr("llm reasoning"))
           @@ Field("supporting_excerpts", exc)) :
        conf \in {Absent, JNum(-200), JNum(300), JNum(700), JNum(800), JNum(1500),
                  JStr("0.8"), JStr("high"), JNull},
        exc \in {Absent, FourExcerpts, JNum(5)}}
    \cup {JDict("support_confidence" :> JNum(800))}
    \cup ValuesNoDict

SupportOutcomes == LlmOutcomes(SupportPayloads, {JDict("support_confidence" :> JNum(800))})

StrongContradiction ==
    JDict(("contradiction_confidence" :> JNum(650)) @@ ("violation_type" :> JStr("capability")))

ContradictionPayloads ==
    {JDict(Field("contradiction_confidence", conf) @@ ("contradiction_reasoning" :> JStr("llm reasoning"))
           @@ Field("contradicting_excerpts", exc) @@ Field("violation_type", vt)) :
        conf \in {Absent, JNum(200), JNum(300), JNum(320), JNum(400), JNum(600), JNum(1500),
                  JStr("0.45"), JStr("high")},
        exc \in {Absent, FourExcerpts, JNum(5)},
        vt \in {Absent, JStr("none"), JStr("temporal"), JStr("bogus"), JNull}}
    \cup {StrongContradiction}
    \cup ValuesNoDict

ContradictionOutcomes == LlmOutcomes(ContradictionPayloads, {StrongContradiction})

(***************************************************************************)
(* The pipeline as a state machine: one action per stage of process_claim. *)
(* An action is one pass of call_llm's loop; the pass that ends the call   *)
(* also runs the rest of the stage.                                        *)
(***************************************************************************)
PcStart(cd) ==
    /\ claim_data = cd
    /\ stage = "CREATED"
    /\ status = "running"
    /\ attempt = 0
    /\ llm_result = JNull
    /\ caught = "none"
    /\ slept = FALSE
    /\ text_form = "none"
    /\ analysis = ClaimAnalysis(cd)
    /\ sup = [conf |-> 0, reason |-> "", excerpts |-> JList(<<>>)]
    /\ con = [conf |-> 0, reason |-> "", excerpts |-> JList(<<>>), violation_type |-> JStr("none")]
    /\ output = <<>>

\* process_claim is not running: the state of a claim without evidence, never stepped
PcIdle == PcStart([claim_id |-> "claim-1", claim_text |-> "the claim text", evidence |-> <<>>])

SynIdle ==
    /\ syn_args = [support_conf |-> 0, support_reason |-> "llm reasoning", contradict_conf |-> 0,
                   contradict_reason |-> "llm reasoning", violation_type |-> "none", sub_claims |-> <<>>]
    /\ syn_ret = <<>>
    /\ local_syn_ret = <<>>

\* an empty directory
NoFiles == [stem \in {} |-> <<>>]

\* main() has not been started and both directories are empty
MainIdle ==
    /\ evidence_dir = {}
    /\ verdicts_dir = NoFiles
    /\ main_pc = "idle"
    /\ run = 0
    /\ processed = {}
    /\ remaining = <<>>
    /\ passed = <<>>
    /\ written = {}

\* the aggregator not started, on an empty verdicts directory
AggIdle ==
    /\ verdict_files = NoFiles
    /\ agg_pc = "idle"
    /\ results_csv = <<>>

\* no call of exponential_backoff_delay made
BackoffIdle == backoff_calls = <<>>

\* the threads the web service starts in the runs explored
MaxWorkers == 2

WorkerIds == 1..MaxWorkers

\* pipeline.py lines 17-25: the status record at import, and after a reset
\* (lines 42-50); None is "None"
InitialStatus ==
    [running |-> FALSE, stage |-> "None", progress |-> 0, start_time |-> "None",
     end_time |-> "None", error |-> "None", log |-> <<>>]

\* pipeline.py line 28: _pipeline_process = None (a Popen object is named by the
\* id of the worker that made it)
NoProcess == 0

\* the web service after import: no request made, no thread started
FlaskIdle ==
    /\ pipeline_status = InitialStatus
    /\ pipeline_process = NoProcess
    /\ procs = [w \in WorkerIds |-> [state |-> "none", lines |-> 0, returncode |-> 0]]
    /\ workers = [w \in WorkerIds |-> [kind |-> "none", pc |-> "unstarted"]]
    /\ held = <<>>
    /\ reset_pc = "idle"
    /\ ret = <<>>

ExtIdle == AggIdle /\ BackoffIdle /\ FlaskIdle

\* the call sleeps and loops
Retry(c) ==
    /\ attempt' = attempt + 1
    /\ caught' = c.caught
    /\ slept' = TRUE
    /\ text_form' = c.form
    /\ UNCHANGED <<claim_data, stage, status, llm_result, analysis, sup, con, output>>

\* call_llm returns c.result to the stage
Return(c) ==
    /\ llm_result' = c.result
    /\ attempt' = 0
    /\ caught' = c.caught
    /\ slept' = (c.caught = "transient")
    /\ text_form' = c.form

\* an exception leaves process_claim
Raise == status' = "raised"

\* lines 311-313
Decompose(outcomes) ==
    /\ status = "running" /\ stage = "CREATED"
    /\ \E o \in outcomes :
        LET c == call_llm(attempt, o)
            r == decompose_claim(c.result, claim_data)
        IN IF c.retry THEN Retry(c)
           ELSE IF r.raised
           THEN Return(c) /\ Raise /\ UNCHANGED <<claim_data, stage, analysis, sup, con, output>>
           ELSE /\ Return(c)
                /\ analysis' = [analysis EXCEPT !.sub_claims = r.value]
                /\ stage' = "DECOMPOSED"
                /\ UNCHANGED <<claim_data, status, sup, con, output>>
    /\ UNCHANGED synVars
    /\ UNCHANGED mainVars
    /\ UNCHANGED extVars

\* a shortcut for a claim without evidence: straight to an UNDETERMINED result
BucketEvidenceOrShortcut ==
    /\ status = "running" /\ stage = "DECOMPOSED"
    /\ IF claim_data.evidence = <<>>
       THEN /\ stage' = "SYNTHESIZED"
            /\ status' = "returned"
            /\ output' = build_output(analysis, sup, con).value
            /\ UNCHANGED analysis
       ELSE /\ analysis' = bucket_evidence(analysis, claim_data.evidence)
            /\ stage' = "EVIDENCE_BUCKETED"
            /\ UNCHANGED <<status, output>>
    /\ UNCHANGED <<claim_data, attempt, llm_result, caught, slept, text_form, sup, con>>
    /\ UNCHANGED synVars
    /\ UNCHANGED mainVars
    /\ UNCHANGED extVars

\* lines 315-330
BucketEvidence ==
    /\ status = "running" /\ stage = "DECOMPOSED"
    /\ analysis' = bucket_evidence(analysis, claim_data.evidence)
    /\ stage' = "EVIDENCE_BUCKETED"
    /\ UNCHANGED <<claim_data, status, attempt, llm_result, caught, slept, text_form, sup, con, output>>
    /\ UNCHANGED synVars
    /\ UNCHANGED mainVars
    /\ UNCHANGED extVars

\* lines 332-335
EvaluateSupport ==
    /\ status = "running" /\ stage = "EVIDENCE_BUCKETED"
    /\ \E o \in SupportOutcomes :
        LET c == call_llm(attempt, o)
            r == evaluate_for_support(c.result)
        IN IF c.retry THEN Retry(c)
           ELSE IF r.raised
           THEN Return(c) /\ Raise /\ UNCHANGED <<claim_data, stage, analysis, sup, con, output>>
           ELSE /\ Return(c)
                /\ sup' = [conf |-> r.conf, reason |-> r.reason, excerpts |-> r.excerpts]
                /\ stage' = "SUPPORT_EVALUATED"
                /\ UNCHANGED <<claim_data, status, analysis, con, output>>
    /\ UNCHANGED synVars
    /\ UNCHANGED mainVars
    /\ UNCHANGED extVars

\* lines 337-341
EvaluateContradiction ==
    /\ status = "running" /\ stage = "SUPPORT_EVALUATED"
    /\ \E o \in ContradictionOutcomes :
        LET c == call_llm(attempt, o)
            r == evaluate_for_contradiction(c.result)
        IN IF c.retry THEN Retry(c)
           ELSE IF r.raised
           THEN Return(c) /\ Raise /\ UNCHANGED <<claim_data, stage, analysis, sup, con, output>>
           ELSE /\ Return(c)
                /\ con' = [conf |-> r.conf, reason |-> r.reason, excerpts |-> r.excerpts,
                           violation_type |-> r.violation_type]
                /\ stage' = "CONTRADICTION_EVALUATED"
                /\ UNCHANGED <<claim_data, status, analysis, sup, output>>
    /\ UNCHANGED synVars
    /\ UNCHANGED mainVars
    /\ UNCHANGED extVars

\* lines 343-374
Synthesize ==
    /\ status = "running" /\ stage = "CONTRADICTION_EVALUATED"
    /\ LET tracked == track_violations(analysis, sup, con)
           sv == synthesize_verdict(sup.conf, sup.reason, con.conf, con.reason,
                                    con.violation_type, tracked.value.sub_claims)
           synthesized == [tracked.value EXCEPT !.verdict = sv.verdict,
                                                !.confidence = sv.confidence,
                                                !.reasoning = sv.reasoning]
           out == build_output(synthesized, sup, con)
       IN IF tracked.raised
          THEN /\ Raise
               /\ analysis' = tracked.value
               /\ UNCHANGED <<stage, output>>
          ELSE /\ analysis' = synthesized
               /\ stage' = "SYNTHESIZED"
               /\ IF out.raised
                  THEN Raise /\ UNCHANGED output
                  ELSE /\ output' = out.value
                       /\ status' = "returned"
    /\ UNCHANGED <<claim_data, attempt, llm_result, caught, slept, text_form, sup, con>>
    /\ UNCHANGED synVars
    /\ UNCHANGED mainVars
    /\ UNCHANGED extVars

Init ==
    /\ \E cd \in ClaimData : PcStart(cd)
    /\ SynIdle
    /\ MainIdle /\ ExtIdle

Next ==
    \/ Decompose(FewDecomposeOutcomes)
    \/ BucketEvidence
    \/ EvaluateSupport
    \/ EvaluateContradiction
    \/ Synthesize

Spec == Init /\ [][Next]_vars

\* process_claim up to the bucketing, for claims with up to MaxPassages passages
BucketInit ==
    /\ \E cd \in BucketClaimData : PcStart(cd)
    /\ SynIdle
    /\ MainIdle /\ ExtIdle

BucketNext ==
    \/ Decompose(LlmOutcomes({JNull, GoodDecomposition}, {GoodDecomposition}))
    \/ BucketEvidence

BucketSpec == BucketInit /\ [][BucketNext]_vars

\* decompose_claim on every response of DecomposePayloads, for a claim without evidence
DecompInit == PcIdle /\ SynIdle /\ MainIdle /\ ExtIdle

DecompNext == Decompose(DecomposeOutcomes)

DecompSpec == DecompInit /\ [][DecompNext]_vars

(***************************************************************************)
(* agents/reasoning_agent_local.py: the same pipeline on a local Ollama    *)
(* model.  The functions it names like the reference ones carry the        *)
(* prefix local_ here.                                                     *)
(***************************************************************************)
local_CONTRADICTION_THRESHOLD == 400

local_STRONG_SUPPORT_THRESHOLD == 350

local_WEAK_CONTRADICTION_THRESHOLD == 200

BOOST == 250

\* str(value)
Str(j) == IF j.t = "string" THEN j.s ELSE IF j.t = "null" THEN "None" ELSE "str of a non-string"

safe_float(value, default) ==
    IF value = JNull THEN default
    ELSE IF float_ok(value) THEN float_value(value)
    ELSE default

get_default_response(call_stage) ==
    CASE call_stage = "support" ->
            JDict(("support_confidence" :> JNum(300))
                  @@ ("support_reasoning" :> JStr("Unable to parse LLM response - using conservative default"))
                  @@ ("supporting_excerpts" :> JList(<<>>)))
      [] call_stage = "contradict" ->
            JDict(("contradiction_confidence" :> JNum(0))
                  @@ ("contradiction_reasoning" :> JStr("Unable to parse LLM response - assuming no contradiction"))
                  @@ ("contradicting_excerpts" :> JList(<<>>))
                  @@ ("violation_type" :> JStr("none")))
      [] call_stage = "decompose" -> JList(<<>>)
      [] OTHER -> JDict(NoFields)

\* the list-valued entries of an object
list_fields(d) == {k \in DOMAIN d.f : d.f[k].t = "list"}

\* steps 4 and 5 on a text that holds the JSON value v inside commentary: the
\* array pattern is tried first and runs from the first [ to the last ], so it
\* returns the one array an object holds, if that array is not empty
extract_embedded(v, call_stage) ==
    CASE v.t = "list" -> IF Len(v.items) > 0 THEN v ELSE get_default_response(call_stage)
      [] v.t = "dict" ->
            IF Cardinality(list_fields(v)) = 1
            THEN LET inner == v.f[CHOOSE k \in list_fields(v) : TRUE]
                 IN IF Len(inner.items) > 0 THEN inner ELSE v
            ELSE v
      [] OTHER -> get_default_response(call_stage)

clean_and_parse_json(o, call_stage) ==
    CASE o.form = "empty" -> get_default_response(call_stage)
      [] o.form \in {"json", "fenced json"} -> o.json
      [] o.form = "json in prose" -> extract_embedded(o.json, call_stage)
      [] OTHER -> get_default_response(call_stage)

\* one request, never repeated: every failure gives the default of the stage
call_ollama(o, call_stage) ==
    IF o.kind = "text" THEN clean_and_parse_json(o, call_stage) ELSE get_default_response(call_stage)

\* the for-loop of the local decompose_claim: items that are no object and items
\* without text are skipped
RECURSIVE local_decompose_items(_, _, _)
local_decompose_items(items, sub_claims, cd) ==
    IF items = <<>>
    THEN sub_claims
    ELSE LET item == Head(items)
         IN IF item.t # "dict"
            THEN local_decompose_items(Tail(items), sub_claims, cd)
            ELSE LET type == Get(item, "type", JStr("factual"))
                     type_str == Lower(Str(type))
                     ctype == IF type_str \in ConstraintType THEN type_str ELSE "factual"
                     text == Get(item, "text", JStr(""))
                     id == Get(item, "id", JStr(SCn(Len(sub_claims) + 1))).s
                 IN IF ~Truthy(text)
                    THEN local_decompose_items(Tail(items), sub_claims, cd)
                    ELSE local_decompose_items(Tail(items),
                            Append(sub_claims, SubClaim(id, text.s, ctype, cd.claim_id)), cd)

local_decompose_claim(result, cd) ==
    IF ~Truthy(result) \/ result.t # "list"
    THEN single_sub_claim(cd)
    ELSE LET sub_claims == local_decompose_items(result.items, <<>>, cd)
         IN IF sub_claims = <<>> THEN single_sub_claim(cd) ELSE sub_claims

\* isinstance(excerpts, list), or []
list_or_empty(j) == IF j.t = "list" THEN j ELSE JList(<<>>)

evaluate_support(result) ==
    IF ~Truthy(result) \/ result.t # "dict"
    THEN [conf |-> 300, reason |-> "Unable to analyze support", excerpts |-> JList(<<>>)]
    ELSE [conf |-> safe_float(Get(result, "support_confidence", JNull), 300),
          reason |-> Str(Get(result, "support_reasoning", JStr("No reasoning"))),
          excerpts |-> list_or_empty(Get(result, "supporting_excerpts", JList(<<>>)))]

evaluate_contradiction(result) ==
    IF ~Truthy(result) \/ result.t # "dict"
    THEN [conf |-> 0, reason |-> "Unable to analyze contradiction", excerpts |-> JList(<<>>),
          violation_type |-> JStr("none")]
    ELSE [conf |-> safe_float(Get(result, "contradiction_confidence", JNull), 0),
          reason |-> Str(Get(result, "contradiction_reasoning", JStr("No reasoning"))),
          excerpts |-> list_or_empty(Get(result, "contradicting_excerpts", JList(<<>>))),
          violation_type |-> JStr(Str(Get(result, "violation_type", JStr("none"))))]

\* the six rules of the local synthesize_verdict
local_synthesize_verdict(support_conf, support_reason, contradict_conf, contradict_reason, violation_type) ==
    IF contradict_conf > local_CONTRADICTION_THRESHOLD
    THEN [verdict |-> "contradicted", confidence |-> Min(950, contradict_conf + BOOST),
          reasoning |-> [kind |-> "Contradiction", cites |-> <<violation_type, contradict_reason>>]]
    ELSE IF support_conf > local_STRONG_SUPPORT_THRESHOLD /\ contradict_conf < local_WEAK_CONTRADICTION_THRESHOLD
    THEN [verdict |-> "supported", confidence |-> Min(950, support_conf + BOOST),
          reasoning |-> [kind |-> "Evidence supports", cites |-> <<support_reason>>]]
    ELSE IF support_conf >= 300 /\ contradict_conf < 200
    THEN [verdict |-> "supported", confidence |-> Min(900, support_conf + 200),
          reasoning |-> [kind |-> "Evidence supports", cites |-> <<support_reason>>]]
    ELSE IF support_conf > contradict_conf
    THEN [verdict |-> "supported", confidence |-> Min(900, support_conf + 150),
          reasoning |-> [kind |-> "Evidence supports", cites |-> <<support_reason>>]]
    ELSE IF contradict_conf > support_conf
    THEN [verdict |-> "contradicted", confidence |-> Min(900, contradict_conf + 150),
          reasoning |-> [kind |-> "Contradiction", cites |-> <<violation_type, contradict_reason>>]]
    ELSE [verdict |-> "supported", confidence |-> 850,
          reasoning |-> [kind |-> "Evidence suggests support", cites |-> <<support_reason>>]]

\* what one request to Ollama can meet
LocalOutcomes(payloads, wrapped) ==
    [kind : {"ConnectionError", "status 500", "Exception"}, form : {"not json"}, json : {JNull}]
        \cup [kind : {"text"}, form : {"json"}, json : payloads]
        \cup [kind : {"text"}, form : {"fenced json", "json in prose"}, json : wrapped]
        \cup [kind : {"text"}, form : {"not json", "empty"}, json : {JNull}]

LocalDecomposeOutcomes == LocalOutcomes(FewDecomposePayloads, {GoodDecomposition, JList(<<>>)})

LocalSupportPayloads ==
    {JDict(Field("support_confidence", conf) @@ ("support_reasoning" :> JStr("llm reasoning"))
           @@ Field("supporting_excerpts", exc)) :
        conf \in {Absent, JNum(-200), JNum(0), JNum(300), JNum(800), JNum(1500), JStr("high"), JNull},
        exc \in {Absent, FourExcerpts, JNum(5)}}
    \cup ValuesNoDict

LocalSupportOutcomes ==
    LocalOutcomes(LocalSupportPayloads,
        {JDict("support_confidence" :> JNum(800)),
         JDict(("support_confidence" :> JNum(800)) @@ ("supporting_excerpts" :> FourExcerpts))})

LocalContradictionPayloads ==
    {JDict(Field("contradiction_confidence", conf) @@ ("contradiction_reasoning" :> JStr("llm reasoning"))
           @@ Field("contradicting_excerpts", exc) @@ Field("violation_type", vt)) :
        conf \in {Absent, JNum(100), JNum(300), JNum(450), JStr("high")},
        exc \in {Absent, FourExcerpts},
        vt \in {Absent, JStr("temporal"), JNull}}
    \cup ValuesNoDict

LocalContradictionOutcomes == LocalOutcomes(LocalContradictionPayloads, {StrongContradiction})

\* call_ollama returns r to the stage: the loop of call_llm is not there
LocalReturn(r, o) ==
    /\ llm_result' = r
    /\ text_form' = IF o.kind = "text" THEN o.form ELSE "none"
    /\ UNCHANGED <<attempt, caught, slept>>

\* local process_claim, line 364; sub_claims is kept in analysis.sub_claims
LocalDecompose ==
    /\ status = "running" /\ stage = "CREATED"
    /\ \E o \in LocalDecomposeOutcomes :
        LET r == call_ollama(o, "decompose")
        IN /\ LocalReturn(r, o)
           /\ analysis' = [analysis EXCEPT !.sub_claims = local_decompose_claim(r, claim_data)]
    /\ stage' = "DECOMPOSED"
    /\ UNCHANGED <<claim_data, status, sup, con, output>>
    /\ UNCHANGED synVars
    /\ UNCHANGED mainVars
    /\ UNCHANGED extVars

\* lines 366-376
LocalEvaluateSupport ==
    /\ status = "running" /\ stage = "DECOMPOSED"
    /\ \E o \in LocalSupportOutcomes :
        LET r == call_ollama(o, "support")
        IN /\ LocalReturn(r, o)
           /\ sup' = evaluate_support(r)
    /\ stage' = "SUPPORT_EVALUATED"
    /\ UNCHANGED <<claim_data, status, analysis, con, output>>
    /\ UNCHANGED synVars
    /\ UNCHANGED mainVars
    /\ UNCHANGED extVars

\* lines 378-382
LocalEvaluateContradiction ==
    /\ status = "running" /\ stage = "SUPPORT_EVALUATED"
    /\ \E o \in LocalContradictionOutcomes :
        LET r == call_ollama(o, "contradict")
        IN /\ LocalReturn(r, o)
           /\ con' = evaluate_contradiction(r)
    /\ stage' = "CONTRADICTION_EVALUATED"
    /\ UNCHANGED <<claim_data, status, analysis, sup, output>>
    /\ UNCHANGED synVars
    /\ UNCHANGED mainVars
    /\ UNCHANGED extVars

\* lines 384-413: the verdict, the ClaimAnalysis and the output dict (its rounded
\* "confidence" and the cut of the reasoning at 300 characters left out)
LocalSynthesize ==
    /\ status = "running" /\ stage = "CONTRADICTION_EVALUATED"
    /\ LET sv == local_synthesize_verdict(sup.conf, sup.reason, con.conf, con.reason, con.violation_type.s)
           built == [ClaimAnalysis(claim_data) EXCEPT
                        !.sub_claims = analysis.sub_claims,
                        !.support_score = sup.conf, !.contradiction_score = con.conf,
                        !.verdict = sv.verdict, !.confidence = sv.confidence,
                        !.reasoning = sv.reasoning]
       IN /\ analysis' = built
          /\ output' = <<[claim_id |-> claim_data.claim_id, verdict |-> sv.verdict,
                          supporting_spans |-> Take(sup.excerpts.items, 3),
                          contradicting_spans |-> Take(con.excerpts.items, 3),
                          reasoning |-> sv.reasoning,
                          analysis |-> to_dict(built)]>>
    /\ stage' = "SYNTHESIZED"
    /\ status' = "returned"
    /\ UNCHANGED <<claim_data, attempt, llm_result, caught, slept, text_form, sup, con>>
    /\ UNCHANGED synVars
    /\ UNCHANGED mainVars
    /\ UNCHANGED extVars

LocalInit == PcIdle /\ SynIdle /\ MainIdle /\ ExtIdle

LocalNext ==
    \/ LocalDecompose
    \/ LocalEvaluateSupport
    \/ LocalEvaluateContradiction
    \/ LocalSynthesize

LocalSpec == LocalInit /\ [][LocalNext]_vars

(***************************************************************************)
(* main(): the batch loop over the evidence directory.  process_claim is   *)
(* one step of the loop here: the stages above, run one after the other on *)
(* what the three calls returned.                                          *)
(***************************************************************************)
\* lines 343-374 on the analysis a and the two evaluators' results
synthesis_stage(a, s, c) ==
    LET tracked == track_violations(a, s, c)
        sv == synthesize_verdict(s.conf, s.reason, c.conf, c.reason, c.violation_type,
                                 tracked.value.sub_claims)
        synthesized == [tracked.value EXCEPT !.verdict = sv.verdict, !.confidence = sv.confidence,
                                             !.reasoning = sv.reasoning]
    IN IF tracked.raised THEN [raised |-> TRUE, value |-> <<>>] ELSE build_output(synthesized, s, c)

\* process_claim(client, claim_data), d, s and c being what call_llm returns to
\* the three stages
process_claim(cd, d, s, c) ==
    LET dec == decompose_claim(d, cd)
        a == bucket_evidence([ClaimAnalysis(cd) EXCEPT !.sub_claims = dec.value], cd.evidence)
        es == evaluate_for_support(s)
        ec == evaluate_for_contradiction(c)
    IN IF dec.raised \/ es.raised \/ ec.raised
       THEN [raised |-> TRUE, value |-> <<>>]
       ELSE synthesis_stage(a, [conf |-> es.conf, reason |-> es.reason, excerpts |-> es.excerpts],
                            [conf |-> ec.conf, reason |-> ec.reason, excerpts |-> ec.excerpts,
                             violation_type |-> ec.violation_type])

\* the claim ids the retriever can write evidence for
ClaimIds == {"claim-" \o ToString(i) : i \in 1..MaxClaims}

\* json.load of evidence/<stem>.json: retriever_agent.py writes the claim_id it
\* names the file by
load_evidence(stem) == [claim_id |-> stem, claim_text |-> "the claim text", evidence |-> <<>>]

\* the orders glob() can list a set of files in
Orders(files) ==
    {seq \in [1..Cardinality(files) -> files] : \A i, j \in DOMAIN seq : i # j => seq[i] # seq[j]}

\* the filter dropped: every evidence file is visited again
remaining_files_unfiltered(evidence_files, done) == evidence_files

\* line 410
remaining_files(evidence_files, done) == {f \in evidence_files : f \notin done}

\* what the three calls return in the batch runs explored
BatchDecompose == {JNull, JList(<<JStr("a sub-claim")>>)}

BatchSupport == {JNull, JDict("support_confidence" :> JNum(800))}

BatchContradiction == {JNull, StrongContradiction}

\* retriever_agent.py writes the evidence file of a claim
Retrieve ==
    /\ main_pc # "loop"
    /\ \E id \in ClaimIds \ evidence_dir : evidence_dir' = evidence_dir \cup {id}
    /\ UNCHANGED <<verdicts_dir, main_pc, run, processed, remaining, passed, written>>
    /\ UNCHANGED synVars
    /\ UNCHANGED pcVars
    /\ UNCHANGED extVars

\* lines 394-418: main() up to the for-loop
MainStart ==
    /\ main_pc # "loop"
    /\ run < MaxRuns
    /\ run' = run + 1
    /\ passed' = <<>>
    /\ written' = {}
    /\ IF evidence_dir = {}
       THEN /\ main_pc' = "returned"
            /\ UNCHANGED <<processed, remaining>>
       ELSE /\ main_pc' = "loop"
            /\ processed' = DOMAIN verdicts_dir
            /\ remaining' \in Orders(remaining_files(evidence_dir, DOMAIN verdicts_dir))
    /\ UNCHANGED <<evidence_dir, verdicts_dir>>
    /\ UNCHANGED synVars
    /\ UNCHANGED pcVars
    /\ UNCHANGED extVars

\* lines 420-437: one pass of the for-loop
MainIteration ==
    /\ main_pc = "loop"
    /\ remaining # <<>>
    /\ LET evidence_file == Head(remaining)
           cd == load_evidence(evidence_file)
       IN /\ passed' = Append(passed, cd.claim_id)
          /\ \E d \in BatchDecompose, s \in BatchSupport, c \in BatchContradiction :
                LET verdict == process_claim(cd, d, s, c)
                IN IF verdict.raised
                   THEN /\ main_pc' = "raised"
                        /\ UNCHANGED <<verdicts_dir, remaining, written>>
                   ELSE /\ verdicts_dir' = [stem \in DOMAIN verdicts_dir \cup {cd.claim_id} |->
                                               IF stem = cd.claim_id THEN verdict.value[1]
                                               ELSE verdicts_dir[stem]]
                        /\ written' = written \cup {cd.claim_id}
                        /\ remaining' = Tail(remaining)
                        /\ UNCHANGED main_pc
    /\ UNCHANGED <<evidence_dir, run, processed>>
    /\ UNCHANGED synVars
    /\ UNCHANGED pcVars
    /\ UNCHANGED extVars

\* lines 439-454: the loop is over
MainReturn ==
    /\ main_pc = "loop"
    /\ remaining = <<>>
    /\ main_pc' = "returned"
    /\ UNCHANGED <<evidence_dir, verdicts_dir, run, processed, remaining, passed, written>>
    /\ UNCHANGED synVars
    /\ UNCHANGED pcVars
    /\ UNCHANGED extVars

MainInit == MainIdle /\ ExtIdle /\ PcIdle /\ SynIdle

MainNext ==
    \/ Retrieve
    \/ MainStart
    \/ MainIteration
    \/ MainReturn

MainSpec == MainInit /\ [][MainNext]_vars

(***************************************************************************)
(* synthesize_verdict as a function of its arguments: the unit tests of    *)
(* tests/test_reasoning_agent.py call it with sub-claim lists and scores   *)
(* of their own choosing.                                                  *)
(***************************************************************************)
\* confidences in [0,1], with every threshold of the source and its neighbours
ConfValues == {0, 100, 200, 250, 300, 320, 350, 400, 450, 500, 600, 650, 700, 720, 800, 850, 900, 1000}

ReasonValues == {"Failed to analyze support", "llm reasoning"}

ViolationLabels == {"none", "temporal"}

SubClaimWithVerdict(i, v) == [SubClaim(SCn(i), "sub-claim", "factual", "claim") EXCEPT !.verdict = v]

SubClaimLists ==
    {[i \in 1..Len(vs) |-> SubClaimWithVerdict(i, vs[i])] : vs \in SeqsUpTo(Verdict \cup {NoVerdict}, MaxSubClaims)}

SynArgs ==
    [support_conf : ConfValues, support_reason : ReasonValues,
     contradict_conf : ConfValues, contradict_reason : {"llm reasoning"},
     violation_type : ViolationLabels, sub_claims : SubClaimLists]

SynInit ==
    /\ syn_args \in SynArgs
    /\ syn_ret = <<>>
    /\ local_syn_ret = <<>>
    /\ PcIdle
    /\ MainIdle /\ ExtIdle

SynthesizeCall ==
    /\ syn_ret = <<>>
    /\ syn_ret' = <<synthesize_verdict(syn_args.support_conf, syn_args.support_reason,
                                       syn_args.contradict_conf, syn_args.contradict_reason,
                                       syn_args.violation_type, syn_args.sub_claims)>>
    /\ UNCHANGED <<syn_args, local_syn_ret>>
    /\ UNCHANGED pcVars
    /\ UNCHANGED mainVars
    /\ UNCHANGED extVars

SynNext == SynthesizeCall

\* the local synthesize_verdict on the five scalar arguments of syn_args
LocalSynthesizeCall ==
    /\ local_syn_ret = <<>>
    /\ local_syn_ret' = <<local_synthesize_verdict(syn_args.support_conf, syn_args.support_reason,
                                                   syn_args.contradict_conf, syn_args.contradict_reason,
                                                   syn_args.violation_type)>>
    /\ UNCHANGED <<syn_args, syn_ret>>
    /\ UNCHANGED pcVars
    /\ UNCHANGED mainVars
    /\ UNCHANGED extVars

\* both variants called on the same scores
LocalSynInit ==
    /\ syn_args \in {a \in SynArgs : a.sub_claims = <<>>}
    /\ syn_ret = <<>>
    /\ local_syn_ret = <<>>
    /\ PcIdle
    /\ MainIdle /\ ExtIdle

LocalSynNext ==
    \/ SynthesizeCall
    \/ LocalSynthesizeCall

LocalSynthSpec == LocalSynInit /\ [][LocalSynNext]_vars

SynthSpec == SynInit /\ [][SynNext]_vars

(***************************************************************************)
(* results_aggregator.py: main()                                           *)
(***************************************************************************)
\* line 20
VERDICT_MAP == ("supported" :> 1) @@ ("contradicted" :> 0) @@ ("undetermined" :> 0)

\* dict.get(key, default) on VERDICT_MAP
VERDICT_MAP_get(key, default) ==
    IF key.t = "string" /\ key.s \in DOMAIN VERDICT_MAP THEN VERDICT_MAP[key.s] ELSE default

\* a default of 1 for the verdicts the map does not know
prediction_default_one(verdict) == VERDICT_MAP_get(verdict, 1)

\* line 71
prediction(verdict) == VERDICT_MAP_get(verdict, 0)

\* int(x["Story ID"]) for the ids it parses; it raises ValueError on the others
IntOf == ("2" :> 2) @@ ("10" :> 10)

\* the order of Python's < on the ids as strings
StrRank == ("10" :> 1) @@ ("2" :> 2) @@ ("c3" :> 3)

\* the claim ids of the verdict files explored
StoryIds == DOMAIN StrRank

\* lines 89-93: by number when every id is one, as strings otherwise
sort_results(ids) ==
    LET key == IF ids \subseteq DOMAIN IntOf THEN IntOf ELSE StrRank
    IN CHOOSE seq \in Orders(ids) : \A i, j \in DOMAIN seq : i < j => key[seq[i]] < key[seq[j]]

\* the "verdict" entries a verdict file can carry: the three the reasoning agents
\* write, and values the map does not know
VerdictEntries ==
    {JStr("supported"), JStr("contradicted"), JStr("undetermined"),
     JStr("SUPPORTED"), JStr("bogus"), JNull}

\* csv.DictWriter writes str(value)
csv_row(id, verdict) ==
    [story_id |-> id, Prediction |-> ToString(prediction(verdict)), verdict |-> verdict]

\* lines 46-105: nothing is written for an empty directory
Aggregate ==
    /\ agg_pc = "idle"
    /\ agg_pc' = "returned"
    /\ results_csv' =
         IF DOMAIN verdict_files = {}
         THEN <<>>
         ELSE LET order == sort_results(DOMAIN verdict_files)
              IN [i \in DOMAIN order |-> csv_row(order[i], verdict_files[order[i]])]
    /\ UNCHANGED <<verdict_files, backoffVars, flaskVars>>
    /\ UNCHANGED <<pcVars, synVars, mainVars>>

AggInit ==
    /\ verdict_files \in UNION {[ids -> VerdictEntries] : ids \in SUBSET StoryIds}
    /\ agg_pc = "idle"
    /\ results_csv = <<>>
    /\ BackoffIdle /\ FlaskIdle
    /\ PcIdle /\ SynIdle /\ MainIdle

AggNext == Aggregate

AggSpec == AggInit /\ [][AggNext]_vars

(***************************************************************************)
(* reasoning_agent.py: exponential_backoff_delay                           *)
(* Seconds are fixed-point thousandths, as is random.random(); delay * 0.25  *)
(* is delay \div 4, exact on the delays 1000 * 2^n and 60000.              *)
(***************************************************************************)
\* line 66
BASE_DELAY == 1000

\* line 67
MAX_DELAY == 60000

\* the largest attempt explored
MaxAttempt == 7

\* values of random.random(), which lies in [0.0, 1.0)
RandomValues == {0, 250, 500, 750, 998}

\* a jitter of half the delay
exponential_backoff_delay_wide_jitter(n, random) ==
    LET delay == Min(BASE_DELAY * (2 ^ n), MAX_DELAY)
        jitter == ((delay \div 2) * (2 * random - 1000)) \div 1000
    IN delay + jitter

\* lines 86-90, n being the attempt
exponential_backoff_delay(n, random) ==
    LET delay == Min(BASE_DELAY * (2 ^ n), MAX_DELAY)
        jitter == ((delay \div 4) * (2 * random - 1000)) \div 1000
    IN delay + jitter

\* one call; the two most recent calls are kept
BackoffCall ==
    /\ \E attempt_ \in 0..MaxAttempt, random \in RandomValues :
        LET call == [attempt |-> attempt_, delay |-> exponential_backoff_delay(attempt_, random)]
        IN backoff_calls' = IF Len(backoff_calls) < 2 THEN Append(backoff_calls, call)
                            ELSE <<backoff_calls[2], call>>
    /\ UNCHANGED <<aggVars, flaskVars>>
    /\ UNCHANGED <<pcVars, synVars, mainVars>>

BackoffInit == PcIdle /\ SynIdle /\ MainIdle /\ ExtIdle

BackoffNext == BackoffCall

BackoffSpec == BackoffInit /\ [][BackoffNext]_vars

(***************************************************************************)
(* flask_api/pipeline.py and flask_api/pipeline_api.py                      *)
(* The requests are served by threads of the web server and the workers    *)
(* are threads of their own: a step below is a stretch of one thread that  *)
(* the others can run between.  None is "None", a time stamp is "set".     *)
(***************************************************************************)
\* the lines a subprocess prints in the runs explored
MaxLines == 1

\* what run_all.py prints
OutputLines == {"STAGE: Reasoning", "ERROR: no evidence"}

\* pipeline.py line 119
stages == <<"Ingestion", "Embedding", "Claims", "Retrieval", "Reasoning", "Dossiers", "Results">>

\* lines 128-133: the first stage the line names, 0 when it names none
stage_of(line) == IF line = "STAGE: Reasoning" THEN 5 ELSE 0

\* line 136
is_error(line) == line = "ERROR: no evidence"

\* the copy a request holds once the list in "log" of the status is appended to:
\* dict.copy() copies the entries, the list is the same object
appended(h, line) ==
    IF h # <<>> /\ h[1].shares_log THEN <<[h[1] EXCEPT !.status.log = Append(@, line)]>> ELSE h

\* the same once "log" of the status is bound to a new list
rebound(h) == IF h = <<>> THEN h ELSE <<[h[1] EXCEPT !.shares_log = FALSE]>>

\* the threads started and not finished
live_workers == {w \in WorkerIds : workers[w].pc \notin {"unstarted", "done"}}

\* a worker thread not started yet
free_worker == CHOOSE w \in WorkerIds : workers[w].pc = "unstarted" /\ \A v \in 1..(w - 1) : workers[v].pc # "unstarted"

Returned(endpoint, success, message, code) ==
    [endpoint |-> endpoint, success |-> success, message |-> message, code |-> code]

\* pipeline_api.py lines 24-50 with pipeline.py lines 76-88 and 156-160
start_pipeline ==
    /\ IF pipeline_status.running
       THEN /\ ret' = <<Returned("run", FALSE, "Pipeline is already running", 409)>>
            /\ UNCHANGED workers
       ELSE /\ \E w \in WorkerIds : workers[w].pc = "unstarted"
            /\ workers' = [workers EXCEPT ![free_worker] = [kind |-> "pipeline", pc |-> "begin"]]
            /\ ret' = <<Returned("run", TRUE, "Pipeline started", 200)>>
    /\ UNCHANGED <<pipeline_status, pipeline_process, procs, held, reset_pc>>
    /\ UNCHANGED <<aggVars, backoffVars, pcVars, synVars, mainVars>>

\* pipeline_api.py lines 108-120 with pipeline.py lines 163-181 and 224-227
run_stage(stage_name) ==
    /\ IF pipeline_status.running
       THEN /\ ret' = <<Returned("stage", FALSE, "Pipeline is already running", 400)>>
            /\ UNCHANGED workers
       ELSE IF stage_name # "reasoning"
       THEN /\ ret' = <<Returned("stage", FALSE, "Unknown stage", 400)>>
            /\ UNCHANGED workers
       ELSE /\ \E w \in WorkerIds : workers[w].pc = "unstarted"
            /\ workers' = [workers EXCEPT ![free_worker] = [kind |-> "stage", pc |-> "begin"]]
            /\ ret' = <<Returned("stage", TRUE, "Stage started", 200)>>
    /\ UNCHANGED <<pipeline_status, pipeline_process, procs, held, reset_pc>>
    /\ UNCHANGED <<aggVars, backoffVars, pcVars, synVars, mainVars>>

\* pipeline.py lines 93-105
pipeline_worker_begin(w) ==
    /\ workers[w] = [kind |-> "pipeline", pc |-> "begin"]
    /\ workers' = [workers EXCEPT ![w].pc = "popen"]
    /\ pipeline_status' = [pipeline_status EXCEPT !.running = TRUE, !.stage = "Starting",
                              !.progress = 0, !.start_time = "set", !.error = "None",
                              !.log = <<"Running: python3 run_all.py --local --clean">>]
    /\ held' = rebound(held)
    /\ UNCHANGED <<pipeline_process, procs, reset_pc, ret>>
    /\ UNCHANGED <<aggVars, backoffVars, pcVars, synVars, mainVars>>

\* lines 109-122: the subprocess is started and its output is being read; or
\* Popen raises and lines 148-154 run
pipeline_worker_popen(w) ==
    /\ workers[w] = [kind |-> "pipeline", pc |-> "popen"]
    /\ \/ /\ pipeline_process' = w
          /\ procs' = [procs EXCEPT ![w] = [state |-> "running", lines |-> 0, returncode |-> 0]]
          /\ workers' = [workers EXCEPT ![w].pc = "reading"]
          /\ UNCHANGED pipeline_status
       \/ /\ pipeline_status' = [pipeline_status EXCEPT !.error = "Popen failed", !.stage = "Failed",
                                    !.running = FALSE, !.end_time = "set"]
          /\ workers' = [workers EXCEPT ![w].pc = "done"]
          /\ UNCHANGED <<pipeline_process, procs>>
    /\ UNCHANGED <<held, reset_pc, ret>>
    /\ UNCHANGED <<aggVars, backoffVars, pcVars, synVars, mainVars>>

\* lines 122-137: one line of the output of the subprocess
pipeline_worker_line(w) ==
    /\ workers[w] = [kind |-> "pipeline", pc |-> "reading"]
    /\ procs[w].state = "running" /\ procs[w].lines < MaxLines
    /\ \E line \in OutputLines :
        /\ pipeline_status' =
             [pipeline_status EXCEPT
                !.log = Append(@, line),
                !.stage = IF stage_of(line) # 0 THEN stages[stage_of(line)] ELSE @,
                !.progress = IF stage_of(line) # 0 THEN (stage_of(line) * 100) \div Len(stages) ELSE @,
                !.error = IF is_error(line) THEN line ELSE @]
        /\ held' = appended(held, line)
    /\ procs' = [procs EXCEPT ![w].lines = @ + 1]
    /\ UNCHANGED <<pipeline_process, workers, reset_pc, ret>>
    /\ UNCHANGED <<aggVars, backoffVars, pcVars, synVars, mainVars>>

\* run_all.py ends by itself, with exit code 0 or 1
process_exit(w) ==
    /\ procs[w].state = "running"
    /\ \E rc \in {0, 1} : procs' = [procs EXCEPT ![w].state = "exited", ![w].returncode = rc]
    /\ UNCHANGED <<pipeline_status, pipeline_process, workers, held, reset_pc, ret>>
    /\ UNCHANGED <<aggVars, backoffVars, pcVars, synVars, mainVars>>

\* lines 139-154, after the end of the output: wait() and returncode are those of
\* the process the global names at that moment
pipeline_worker_finish(w) ==
    /\ workers[w] = [kind |-> "pipeline", pc |-> "reading"]
    /\ procs[w].state # "running"
    /\ pipeline_process # NoProcess /\ procs[pipeline_process].state \in {"exited", "reaped"}
    /\ procs' = [procs EXCEPT ![pipeline_process].state = "reaped"]
    /\ pipeline_status' =
         IF procs[pipeline_process].returncode = 0
         THEN [pipeline_status EXCEPT !.stage = "Complete", !.progress = 100,
                                      !.running = FALSE, !.end_time = "set"]
         ELSE [pipeline_status EXCEPT
                  !.error = "Pipeline failed with exit code " \o ToString(procs[pipeline_process].returncode),
                  !.stage = "Failed", !.running = FALSE, !.end_time = "set"]
    /\ workers' = [workers EXCEPT ![w].pc = "done"]
    /\ UNCHANGED <<pipeline_process, held, reset_pc, ret>>
    /\ UNCHANGED <<aggVars, backoffVars, pcVars, synVars, mainVars>>

\* lines 186-191
stage_worker_begin(w) ==
    /\ workers[w] = [kind |-> "stage", pc |-> "begin"]
    /\ workers' = [workers EXCEPT ![w].pc = "subprocess"]
    /\ pipeline_status' = [pipeline_status EXCEPT !.running = TRUE, !.stage = "reasoning",
                              !.progress = 50, !.start_time = "set", !.error = "None",
                              !.log = <<>>]
    /\ held' = rebound(held)
    /\ UNCHANGED <<pipeline_process, procs, reset_pc, ret>>
    /\ UNCHANGED <<aggVars, backoffVars, pcVars, synVars, mainVars>>

\* lines 196-222: subprocess.run returns with exit code 0 or 1, or times out
stage_worker_finish(w) ==
    /\ workers[w] = [kind |-> "stage", pc |-> "subprocess"]
    /\ workers' = [workers EXCEPT ![w].pc = "done"]
    /\ \E outcome \in {"0", "1", "TimeoutExpired"} :
        /\ pipeline_status' =
             IF outcome = "0"
             THEN [pipeline_status EXCEPT !.log = <<"stage output">>, !.stage = "Complete",
                                          !.progress = 100, !.running = FALSE, !.end_time = "set"]
             ELSE IF outcome = "1"
             THEN [pipeline_status EXCEPT !.log = <<"stage output">>, !.error = "Stage failed",
                                          !.stage = "Failed", !.running = FALSE, !.end_time = "set"]
             ELSE [pipeline_status EXCEPT !.error = "Stage timed out", !.stage = "Failed",
                                          !.running = FALSE, !.end_time = "set"]
        /\ held' = IF outcome = "TimeoutExpired" THEN held ELSE rebound(held)
    /\ UNCHANGED <<pipeline_process, procs, reset_pc, ret>>
    /\ UNCHANGED <<aggVars, backoffVars, pcVars, synVars, mainVars>>

\* pipeline_api.py lines 97-105 with pipeline.py lines 53-73.  os.getpgid raises
\* for a process that was waited for; SIGTERM ends a running one with -15
cancel_running_pipeline ==
    /\ IF ~pipeline_status.running
       THEN /\ ret' = <<Returned("cancel", FALSE, "No pipeline is running", 409)>>
            /\ UNCHANGED <<pipeline_status, procs, held>>
       ELSE IF pipeline_process = NoProcess
       THEN /\ ret' = <<Returned("cancel", FALSE, "No process to cancel", 409)>>
            /\ UNCHANGED <<pipeline_status, procs, held>>
       ELSE IF procs[pipeline_process].state = "reaped"
       THEN /\ ret' = <<Returned("cancel", FALSE, "Failed to cancel", 409)>>
            /\ UNCHANGED <<pipeline_status, procs, held>>
       ELSE /\ procs' = IF procs[pipeline_process].state = "running"
                        THEN [procs EXCEPT ![pipeline_process].state = "exited",
                                           ![pipeline_process].returncode = -15]
                        ELSE procs
            /\ pipeline_status' = [pipeline_status EXCEPT !.stage = "Cancelled",
                                      !.error = "Pipeline cancelled by user", !.running = FALSE,
                                      !.end_time = "set",
                                      !.log = Append(@, "Pipeline cancelled by user")]
            /\ held' = appended(held, "Pipeline cancelled by user")
            /\ ret' = <<Returned("cancel", TRUE, "Pipeline cancelled", 200)>>
    /\ UNCHANGED <<pipeline_process, workers, reset_pc>>
    /\ UNCHANGED <<aggVars, backoffVars, pcVars, synVars, mainVars>>

\* pipeline.py line 36, called at pipeline_api.py line 69
get_pipeline_status == [status |-> pipeline_status, shares_log |-> TRUE, taken |-> pipeline_status]

\* pipeline_api.py line 69: the request takes its copy
pipeline_status_get ==
    /\ held = <<>>
    /\ held' = <<get_pipeline_status>>
    /\ UNCHANGED <<pipeline_status, pipeline_process, procs, workers, reset_pc, ret>>
    /\ UNCHANGED <<aggVars, backoffVars, pcVars, synVars, mainVars>>

\* pipeline_api.py lines 72-75: the copy is sent, cut to its last 50 lines, and
\* dropped
pipeline_status_send ==
    /\ held # <<>>
    /\ held' = <<>>
    /\ UNCHANGED <<pipeline_status, pipeline_process, procs, workers, reset_pc, ret>>
    /\ UNCHANGED <<aggVars, backoffVars, pcVars, synVars, mainVars>>

\* pipeline_api.py lines 81-87: the test of the reset request
reset_pipeline_check ==
    /\ reset_pc = "idle"
    /\ IF pipeline_status.running
       THEN /\ ret' = <<Returned("reset", FALSE, "Cannot reset while pipeline is running", 409)>>
            /\ UNCHANGED reset_pc
       ELSE /\ reset_pc' = "checked"
            /\ UNCHANGED ret
    /\ UNCHANGED <<pipeline_status, pipeline_process, procs, workers, held>>
    /\ UNCHANGED <<aggVars, backoffVars, pcVars, synVars, mainVars>>

\* pipeline_api.py lines 89-94 with pipeline.py lines 39-50
reset_pipeline_status ==
    /\ reset_pc = "checked"
    /\ reset_pc' = "idle"
    /\ pipeline_status' = InitialStatus
    /\ held' = rebound(held)
    /\ ret' = <<Returned("reset", TRUE, "Pipeline status reset", 200)>>
    /\ UNCHANGED <<pipeline_process, procs, workers>>
    /\ UNCHANGED <<aggVars, backoffVars, pcVars, synVars, mainVars>>

FlaskInit == PcIdle /\ SynIdle /\ MainIdle /\ ExtIdle

FlaskNext ==
    \/ start_pipeline
    \/ \E stage_name \in {"reasoning", "bogus"} : run_stage(stage_name)
    \/ \E w \in WorkerIds : pipeline_worker_begin(w)
    \/ \E w \in WorkerIds : pipeline_worker_popen(w)
    \/ \E w \in WorkerIds : pipeline_worker_line(w)
    \/ \E w \in WorkerIds : process_exit(w)
    \/ \E w \in WorkerIds : pipeline_worker_finish(w)
    \/ \E w \in WorkerIds : stage_worker_begin(w)
    \/ \E w \in WorkerIds : stage_worker_finish(w)
    \/ cancel_running_pipeline
    \/ pipeline_status_get
    \/ pipeline_status_send
    \/ reset_pipeline_check
    \/ reset_pipeline_status

FlaskSpec == FlaskInit /\ [][FlaskNext]_vars

(***************************************************************************)
(* Properties of synthesize_verdict (SynthSpec)                            *)
(***************************************************************************)
SynReturned == Len(syn_ret) = 1

\* C1: whenever contradict_conf > 0.4, whatever the support confidence and the
\* sub-claim list, synthesize_verdict returns CONTRADICTED with confidence
\* min(0.95, contradict_conf + 0.1).
C1_ContradictionDominance ==
    SynReturned /\ syn_args.contradict_conf > 400
        => /\ syn_ret[1].verdict = "contradicted"
           /\ syn_ret[1].confidence = Min(950, syn_args.contradict_conf + 100)

\* full support and a supported sub-claim against a contradiction of 0.45
C1_Witness ==
    /\ SynReturned
    /\ syn_args.support_conf = 1000
    /\ syn_args.contradict_conf = 450
    /\ \E i \in 1..Len(syn_args.sub_claims) : syn_args.sub_claims[i].verdict = "supported"
    /\ syn_ret[1].verdict = "contradicted"
    /\ syn_ret[1].confidence = 550

\* C2: synthesize_verdict returns SUPPORTED exactly when support_conf > 0.7 and
\* contradict_conf < 0.25, and then with confidence support_conf * 0.9.
C2_SupportedIff ==
    SynReturned
        => /\ (syn_ret[1].verdict = "supported")
                <=> (syn_args.support_conf > 700 /\ syn_args.contradict_conf < 250)
           /\ syn_ret[1].verdict = "supported"
                => syn_ret[1].confidence * 10 = syn_args.support_conf * 9

\* support 0.8 against contradiction 0.1: SUPPORTED with confidence 0.72
C2_Witness ==
    /\ SynReturned
    /\ syn_args.support_conf = 800
    /\ syn_args.contradict_conf = 100
    /\ syn_ret[1].verdict = "supported"
    /\ syn_ret[1].confidence = 720

\* C3: when neither rule 1 nor rule 2 applies the result is UNDETERMINED with
\* confidence max(0.3, min(support_conf, 0.5)), which lies in [0.3, 0.5]; another
\* sub-claim list gives the same verdict and the same confidence.
C3_Undetermined ==
    SynReturned /\ ~(syn_args.contradict_conf > 400)
                /\ ~(syn_args.support_conf > 700 /\ syn_args.contradict_conf < 250)
        => /\ syn_ret[1].verdict = "undetermined"
           /\ syn_ret[1].confidence = Max(300, Min(syn_args.support_conf, 500))
           /\ syn_ret[1].confidence >= 300 /\ syn_ret[1].confidence <= 500
           /\ \A subs \in SubClaimLists :
                LET other == synthesize_verdict(syn_args.support_conf, syn_args.support_reason,
                                                syn_args.contradict_conf, syn_args.contradict_reason,
                                                syn_args.violation_type, subs)
                IN other.verdict = syn_ret[1].verdict /\ other.confidence = syn_ret[1].confidence

\* support 0.6, contradiction 0.1 and sub-claims of both verdicts: the reasoning
\* says "mixed evidence", the verdict stays UNDETERMINED at 0.5
C3_Witness ==
    /\ SynReturned
    /\ syn_args.support_conf = 600
    /\ syn_args.contradict_conf = 100
    /\ syn_ret[1].reasoning.kind = "Mixed evidence"
    /\ syn_ret[1].verdict = "undetermined"
    /\ syn_ret[1].confidence = 500

(***************************************************************************)
(* Properties of decompose_claim (DecompSpec)                              *)
(***************************************************************************)
\* C4: decompose_claim returns a non-empty sequence whatever the call returned;
\* when the call returned None, [] or a value that is no list, the sequence is the
\* single sub-claim with the text of the claim, category FACTUAL and the claim as
\* parent.
C4_DecomposeNonEmpty ==
    /\ stage = "CREATED" => status # "raised"
    /\ stage = "DECOMPOSED" => Len(analysis.sub_claims) >= 1
    /\ stage = "DECOMPOSED" /\ (llm_result.t # "list" \/ llm_result = JList(<<>>))
        => analysis.sub_claims =
             <<SubClaim("SC1", claim_data.claim_text, "factual", claim_data.claim_id)>>

(***************************************************************************)
(* Properties of process_claim (Spec)                                      *)
(***************************************************************************)
\* C5: process_claim never raises, and when it returns, the output record carries
\* a verdict.
C5_AlwaysReachesSynthesis ==
    /\ status # "raised"
    /\ status = "returned" => Len(output) = 1 /\ output[1].verdict \in Verdict

StageIndex(st) == CHOOSE i \in 1..Len(Stages) : Stages[i] = st

\* C6: the stage of the analysis only ever moves to the next stage of the list
\* CREATED, ..., SYNTHESIZED, and process_claim returns only from SYNTHESIZED: a
\* returned analysis has been through each stage once, in order.
C6_StagesInOrder ==
    /\ [][stage' # stage => StageIndex(stage') = StageIndex(stage) + 1]_vars
    /\ [](status = "returned" => stage = "SYNTHESIZED")

\* a run that took the fallback of all three calls and still returned
C6_Witness ==
    /\ status = "returned"
    /\ stage = "SYNTHESIZED"
    /\ analysis.sub_claims = single_sub_claim(claim_data)
    /\ sup.reason = "Failed to analyze support"
    /\ con.reason = "Failed to analyze contradiction"

\* C7: a recorded violation has severity DEFINITE if c > 0.6, LIKELY if
\* 0.4 < c <= 0.6 and POSSIBLE if 0.3 < c <= 0.4, c being the contradiction
\* confidence; a synthesized analysis has a violation exactly when c > 0.3 and the
\* category is not "none", so none at c = 0.3.
C7_SeverityStep ==
    LET c == analysis.contradiction_score
    IN /\ \A i \in 1..Len(analysis.violations) :
            \/ c > 600 /\ analysis.violations[i].severity = "DEFINITE"
            \/ c > 400 /\ c <= 600 /\ analysis.violations[i].severity = "LIKELY"
            \/ c > 300 /\ c <= 400 /\ analysis.violations[i].severity = "POSSIBLE"
       /\ stage = "SYNTHESIZED"
            => Len(analysis.violations) = IF c > 300 /\ con.violation_type # JStr("none") THEN 1 ELSE 0
       /\ c = 300 => analysis.violations = <<>>

\* the upper end of LIKELY: contradiction confidence 0.6 exactly
C7_Witness ==
    /\ stage = "SYNTHESIZED"
    /\ analysis.contradiction_score = 600
    /\ Len(analysis.violations) = 1
    /\ analysis.violations[1].severity = "LIKELY"

\* C8: a synthesized analysis with a DEFINITE violation has verdict CONTRADICTED.
C8_DefiniteImpliesContradicted ==
    stage = "SYNTHESIZED"
        /\ (\E i \in 1..Len(analysis.violations) : analysis.violations[i].severity = "DEFINITE")
        => analysis.verdict = "contradicted"

\* a DEFINITE violation next to a support score of 0.8
C8_Witness ==
    /\ status = "returned"
    /\ analysis.support_score = 800
    /\ Len(analysis.violations) = 1
    /\ analysis.violations[1].severity = "DEFINITE"
    /\ analysis.verdict = "contradicted"

\* C9: violations is non-empty only if contradiction_score > 0.3 and the
\* contradiction evaluator returned a category other than "none"; after a failed
\* contradiction call (call_llm returned None) it is empty.
C9_ViolationsOnlyAboveFloor ==
    /\ analysis.violations # <<>>
        => analysis.contradiction_score > 300 /\ con.violation_type # JStr("none")
    /\ stage \in {"CONTRADICTION_EVALUATED", "SYNTHESIZED"} /\ llm_result = JNull
        => analysis.violations = <<>>

\* a violation recorded just above the floor, for a label outside the vocabulary
C9_Witness ==
    /\ stage = "SYNTHESIZED"
    /\ Len(analysis.violations) = 1
    /\ analysis.contradiction_score = 320
    /\ con.violation_type = JStr("bogus")

\* C10: when the support call failed (call_llm returned None) the support
\* evaluator returns confidence 0.3, not 0, a reasoning that flags the failure and
\* no excerpts.
C10_SupportDefault ==
    stage = "SUPPORT_EVALUATED" /\ llm_result = JNull
        => /\ sup.conf = 300
           /\ sup.reason = "Failed to analyze support"
           /\ sup.excerpts = JList(<<>>)

(***************************************************************************)
(* Properties of the evaluators' defaults and ranges (Spec, LocalSpec)     *)
(***************************************************************************)
\* the contradiction call of the claim failed: call_llm returned None, call_ollama
\* the default of the stage
ContradictionCallFailed ==
    /\ stage \in {"CONTRADICTION_EVALUATED", "SYNTHESIZED"}
    /\ llm_result \in {JNull, get_default_response("contradict")}

\* C11: after a failed contradiction call the contradiction evaluator has returned
\* confidence 0.0, category "none" and no excerpts, and the claim ends with no
\* violation recorded and a verdict other than CONTRADICTED.
C11_FailedContradictionCheck ==
    ContradictionCallFailed
        => /\ con.conf = 0
           /\ con.violation_type = JStr("none")
           /\ con.excerpts = JList(<<>>)
           /\ stage = "SYNTHESIZED"
                => analysis.violations = <<>> /\ analysis.verdict # "contradicted"


\* C12: the confidences the two evaluators return, and the scores and the final
\* confidence of the ClaimAnalysis, lie in [0,1] whatever value the response
\* carried.
C12_ConfidenceInRange ==
    /\ sup.conf \in 0..1000
    /\ con.conf \in 0..1000
    /\ analysis.support_score \in 0..1000
    /\ analysis.contradiction_score \in 0..1000
    /\ analysis.confidence \in 0..1000

(***************************************************************************)
(* Properties of call_llm (Spec)                                           *)
(***************************************************************************)
\* C13: call_llm makes at most MAX_RETRIES attempts; it goes on to a further
\* attempt only from a pass that caught a transient error and slept; and when the
\* last attempt fails transiently too, it returns None and the stage goes on
\* with its default instead of raising.
C13_BoundedRetry ==
    /\ [](attempt + 1 <= MAX_RETRIES)
    /\ [][attempt' = attempt + 1 => caught' = "transient" /\ slept']_vars
    /\ [][attempt + 1 = MAX_RETRIES /\ attempt' = 0 /\ caught' = "transient"
            => /\ llm_result' = JNull
               /\ status' = "running"
               /\ StageIndex(stage') = StageIndex(stage) + 1]_vars

\* five rate-limit or connection errors in the contradiction call: the stage
\* default is in place and the claim goes on
C13_Witness ==
    /\ stage = "CONTRADICTION_EVALUATED"
    /\ status = "running"
    /\ caught = "transient"
    /\ slept
    /\ attempt = 0
    /\ llm_result = JNull
    /\ con.reason = "Failed to analyze contradiction"

\* the value call_llm or call_ollama returned has the shape the stage asked for
ShapeAskedFor ==
    /\ stage = "DECOMPOSED" => llm_result.t = "list"
    /\ stage \in {"SUPPORT_EVALUATED", "CONTRADICTION_EVALUATED"} => llm_result.t = "dict"

\* the first half of C14 alone: a pass that caught a JSON parse error or another
\* non-transient exception was the last of its call, without a sleep, and the
\* call returned None
NotRetried ==
    caught \in {"JSONDecodeError", "Exception"}
        => attempt = 0 /\ ~slept /\ llm_result = JNull

\* C14: malformed output is not retried (NotRetried), and before a response is
\* given up it is repaired: JSON inside a code fence or inside commentary is
\* taken out and returned to the stage.
C14_MalformedNotRetried ==
    /\ NotRetried
    /\ status = "running" /\ text_form \in {"fenced json", "json in prose"} => ShapeAskedFor

(***************************************************************************)
(* Properties of the batch loop of main() (MainSpec)                       *)
(***************************************************************************)
\* C15: a claim that has an output record when a run starts is not handed to
\* process_claim in that run; no record, once written, is ever written again or
\* changed; and a run that starts with a record for every evidence file hands
\* nothing to process_claim and writes no file.
C15_ResumeIdempotent ==
    /\ [](\A i \in 1..Len(passed) : passed[i] \notin processed)
    /\ [][\A stem \in DOMAIN verdicts_dir :
            stem \in DOMAIN verdicts_dir' /\ verdicts_dir'[stem] = verdicts_dir[stem]]_vars
    /\ [](main_pc \in {"loop", "returned"} /\ evidence_dir \subseteq processed
            => passed = <<>> /\ written = {})

\* the second run over two claims the first run has written the records of
C15_Witness ==
    /\ run = 2
    /\ main_pc = "returned"
    /\ evidence_dir = {"claim-1", "claim-2"}
    /\ processed = evidence_dir
    /\ DOMAIN verdicts_dir = evidence_dir
    /\ passed = <<>>
    /\ written = {}

\* C16: an error in one claim never aborts the batch: main() does not end on an
\* exception, and it ends only when no evidence file is left to visit.
C16_FailureIsolation ==
    /\ main_pc # "raised"
    /\ main_pc \in {"returned", "raised"} => remaining = <<>>

(***************************************************************************)
(* Properties of the evidence buckets (BucketSpec)                         *)
(***************************************************************************)
\* the number of times passage e occurs in bucket b
Occurrences(b, e) == Cardinality({i \in 1..Len(b) : b[i] = e})

\* the passages of b are in retrieval order (chunk_id is the retrieval rank here)
InRetrievalOrder(b) == \A i, j \in 1..Len(b) : i < j => b[i].chunk_id < b[j].chunk_id

\* C17: once the evidence is bucketed, every passage is in exactly one of the
\* three buckets: early_evidence if its temporal_slice is EARLY, late_evidence if
\* LATE, mid_evidence otherwise; each bucket is in retrieval order; and the three
\* sizes, as to_dict reports them, add up to the number of passages.
C17_BucketsPartition ==
    stage = "EVIDENCE_BUCKETED"
        => /\ \A i \in 1..Len(claim_data.evidence) :
                LET e == claim_data.evidence[i]
                IN /\ Occurrences(analysis.early_evidence, e)
                        = IF e.temporal_slice = "EARLY" THEN 1 ELSE 0
                   /\ Occurrences(analysis.late_evidence, e)
                        = IF e.temporal_slice = "LATE" THEN 1 ELSE 0
                   /\ Occurrences(analysis.mid_evidence, e)
                        = IF e.temporal_slice \in {"EARLY", "LATE"} THEN 0 ELSE 1
           /\ InRetrievalOrder(analysis.early_evidence)
           /\ InRetrievalOrder(analysis.mid_evidence)
           /\ InRetrievalOrder(analysis.late_evidence)
           /\ LET sizes == to_dict(analysis).temporal_evidence
              IN sizes.early + sizes.mid + sizes.late = Len(claim_data.evidence)

\* EARLY, then a passage without temporal_slice, then EARLY again
C17_Witness ==
    /\ stage = "EVIDENCE_BUCKETED"
    /\ Len(claim_data.evidence) = 3
    /\ Len(analysis.early_evidence) = 2
    /\ Len(analysis.mid_evidence) = 1
    /\ analysis.mid_evidence[1].temporal_slice = "ABSENT"
    /\ analysis.early_evidence[1].chunk_id = 1
    /\ analysis.early_evidence[2].chunk_id = 3

(***************************************************************************)
(* Determinism of synthesize_verdict (SynthSpec)                           *)
(***************************************************************************)
\* the call of syn_args with another list of sub-claims
WithSubClaims(subs) ==
    synthesize_verdict(syn_args.support_conf, syn_args.support_reason,
                       syn_args.contradict_conf, syn_args.contradict_reason,
                       syn_args.violation_type, subs)

\* the list holds a SUPPORTED and a CONTRADICTED sub-claim
Mixed(subs) ==
    /\ \E i \in 1..Len(subs) : subs[i].verdict = "supported"
    /\ \E i \in 1..Len(subs) : subs[i].verdict = "contradicted"

\* C18 as stated: a call that agrees with this one on the five scalar arguments
\* returns the same verdict, the same confidence and the same reasoning category,
\* whatever its list of sub-claims.
C18_DeterministicInFive ==
    SynReturned
        => \A subs \in SubClaimLists :
                /\ WithSubClaims(subs).verdict = syn_ret[1].verdict
                /\ WithSubClaims(subs).confidence = syn_ret[1].confidence
                /\ WithSubClaims(subs).reasoning.kind = syn_ret[1].reasoning.kind

\* C18 amended: the verdict and the confidence are the same for every list of
\* sub-claims; the reasoning category is the same for every list that agrees with
\* this one on holding both a SUPPORTED and a CONTRADICTED sub-claim.
C18_DeterministicAmended ==
    SynReturned
        => \A subs \in SubClaimLists :
                /\ WithSubClaims(subs).verdict = syn_ret[1].verdict
                /\ WithSubClaims(subs).confidence = syn_ret[1].confidence
                /\ Mixed(subs) = Mixed(syn_args.sub_claims)
                     => WithSubClaims(subs).reasoning.kind = syn_ret[1].reasoning.kind

\* the same five scalars give "Mixed evidence" here and "Weak support ..." with
\* an empty list of sub-claims, under the same verdict and confidence
C18_Witness ==
    /\ SynReturned
    /\ Mixed(syn_args.sub_claims)
    /\ syn_ret[1].reasoning.kind = "Mixed evidence"
    /\ WithSubClaims(<<>>).reasoning.kind = "Weak support without clear contradiction"
    /\ WithSubClaims(<<>>).verdict = syn_ret[1].verdict
    /\ WithSubClaims(<<>>).confidence = syn_ret[1].confidence

(***************************************************************************)
(* The two variants of synthesize_verdict side by side (LocalSynthSpec)    *)
(***************************************************************************)
\* C19: on every pair of scores in [0,1] the local synthesize_verdict returns the
\* verdict the reference synthesize_verdict returns; so UNDETERMINED, not
\* SUPPORTED, on equal scores and when support is merely the higher score.
C19_LocalKeepsCalibration ==
    Len(syn_ret) = 1 /\ Len(local_syn_ret) = 1
        => local_syn_ret[1].verdict = syn_ret[1].verdict

(***************************************************************************)
(* Sub-claim ids (DecompSpec)                                              *)
(***************************************************************************)
\* C20: the sub-claims decompose_claim returns have pairwise different ids.
C20_UniqueIds ==
    stage = "DECOMPOSED"
        => \A i, j \in 1..Len(analysis.sub_claims) :
                i # j => analysis.sub_claims[i].id # analysis.sub_claims[j].id

(***************************************************************************)
(* Items without text, labels outside the vocabulary (DecompSpec, Spec)    *)
(***************************************************************************)
\* the item has a text that is not empty
HasText(item) == item.t = "dict" /\ Truthy(Get(item, "text", JStr("")))

\* C21: no sub-claim decompose_claim returns has an empty text; the items that
\* have a text are returned in the order they came in; and a list none of whose
\* items has a text gives the single sub-claim with the text of the claim.
C21_ItemsWithoutTextDropped ==
    stage = "DECOMPOSED"
        => /\ \A i \in 1..Len(analysis.sub_claims) : analysis.sub_claims[i].text # ""
           /\ llm_result.t = "list" /\ (\E i \in 1..Len(llm_result.items) : HasText(llm_result.items[i]))
                => Len(analysis.sub_claims) = Len(SelectSeq(llm_result.items, HasText))
           /\ llm_result.t = "list" /\ (\A i \in 1..Len(llm_result.items) : ~HasText(llm_result.items[i]))
                => analysis.sub_claims = single_sub_claim(claim_data)

\* the category the claim gives a label: the label when it is one of the six
\* values, FACTUAL otherwise
CategoryOf(label) ==
    IF label \in {JStr(v) : v \in ConstraintType} THEN label.s ELSE "factual"

\* C22: a decomposition whose items are objects never fails on their type, keeps
\* every item, and gives item i the category of its type when the type is one of
\* the six values and FACTUAL otherwise (unknown string, other case, missing,
\* not a string).
C22_UnknownCategoryIsFactual ==
    llm_result.t = "list" /\ llm_result.items # <<>>
    /\ (\A i \in 1..Len(llm_result.items) : llm_result.items[i].t = "dict")
        => /\ status # "raised"
           /\ stage = "DECOMPOSED"
           /\ Len(analysis.sub_claims) = Len(llm_result.items)
           /\ \A i \in 1..Len(llm_result.items) :
                analysis.sub_claims[i].constraint_type
                    = CategoryOf(Get(llm_result.items[i], "type", JStr("factual")))

\* the same decomposition fails on a type that is no string
C22_TypeNeverRaises ==
    llm_result.t = "list" /\ (\A i \in 1..Len(llm_result.items) : llm_result.items[i].t = "dict")
        => status # "raised"

\* the violation half of C22 (Spec): a recorded violation carries the category of
\* the label the contradiction call returned
C22_ViolationCategory ==
    analysis.violations # <<>>
        => analysis.violations[1].constraint_type = CategoryOf(con.violation_type)

(***************************************************************************)
(* Violations against the verdict (Spec)                                   *)
(***************************************************************************)
\* C29: in a synthesized analysis a violation of severity LIKELY or DEFINITE comes
\* with the verdict CONTRADICTED, a violation of severity POSSIBLE with the
\* verdict UNDETERMINED, and the verdict SUPPORTED with no violation at all.
C29_ViolationsMatchVerdict ==
    stage = "SYNTHESIZED"
        => /\ \A i \in 1..Len(analysis.violations) :
                /\ analysis.violations[i].severity \in {"LIKELY", "DEFINITE"}
                    => analysis.verdict = "contradicted"
                /\ analysis.violations[i].severity = "POSSIBLE"
                    => analysis.verdict = "undetermined"
           /\ analysis.verdict = "supported" => analysis.violations = <<>>

\* a POSSIBLE violation next to a support score of 0.8: UNDETERMINED
C29_Witness ==
    /\ status = "returned"
    /\ analysis.support_score = 800
    /\ Len(analysis.violations) = 1
    /\ analysis.violations[1].severity = "POSSIBLE"
    /\ analysis.verdict = "undetermined"

(***************************************************************************)
(* The decomposition against the outcome (Spec)                            *)
(***************************************************************************)
\* no sub-claim of the analysis carries a verdict or a confidence of its own
C30_NoSubClaimVerdict ==
    \A i \in 1..Len(analysis.sub_claims) :
        analysis.sub_claims[i].verdict = NoVerdict /\ analysis.sub_claims[i].confidence = 0

\* verdict, confidence and reasoning of a synthesized analysis are those the two
\* evaluators' results give without any sub-claim; never "Mixed evidence"
C30_OutcomeFromEvaluatorsOnly ==
    stage = "SYNTHESIZED"
        => LET sv == synthesize_verdict(sup.conf, sup.reason, con.conf, con.reason,
                                        con.violation_type, <<>>)
           IN /\ analysis.verdict = sv.verdict
              /\ analysis.confidence = sv.confidence
              /\ analysis.reasoning = sv.reasoning
              /\ analysis.reasoning.kind # "Mixed evidence"

\* C30: what the decomposition call returned does not influence the outcome: no
\* sub-claim carries a verdict (None, confidence 0.0) at any stage, the run does
\* not end at the decomposition, and the verdict, confidence and reasoning it
\* reaches are those of the evaluators' results alone, never "Mixed evidence".
C30_DecompositionWithoutInfluence ==
    /\ C30_NoSubClaimVerdict
    /\ status = "raised" => stage # "CREATED"
    /\ C30_OutcomeFromEvaluatorsOnly

(***************************************************************************)
(* The results file (AggSpec)                                              *)
(***************************************************************************)
\* C23: every row of results.csv has Prediction 1 or 0, and it is 1 exactly when
\* the verdict of the row is "supported": 0 for "contradicted", "undetermined" and
\* every verdict the map does not know.
C23_PredictionBinary ==
    \A i \in 1..Len(results_csv) :
        /\ results_csv[i].Prediction \in {"0", "1"}
        /\ results_csv[i].Prediction = "1" <=> results_csv[i].verdict = JStr("supported")
        /\ results_csv[i].verdict = verdict_files[results_csv[i].story_id]

\* three rows: a verdict in another case and a null verdict next to a supported one
C23_Witness ==
    /\ agg_pc = "returned"
    /\ Len(results_csv) = 3
    /\ \E i, j, k \in 1..3 :
        /\ results_csv[i].verdict = JStr("SUPPORTED") /\ results_csv[i].Prediction = "0"
        /\ results_csv[j].verdict = JNull /\ results_csv[j].Prediction = "0"
        /\ results_csv[k].verdict = JStr("supported") /\ results_csv[k].Prediction = "1"

(***************************************************************************)
(* The retry delay (BackoffSpec)                                           *)
(***************************************************************************)
\* the delay before the jitter
NominalDelay(n) == Min(BASE_DELAY * (2 ^ n), MAX_DELAY)

\* C24: the delay returned for attempt n is within 25% of
\* d = min(BASE_DELAY * 2^n, MAX_DELAY): in [0.75, 1.25] for n = 0, never above
\* 75; and of two calls for the attempts n and n + 2, the second of them under
\* the cap, the one for n + 2 returns the larger delay.
C24_BackoffWithinQuarter ==
    /\ \A i \in 1..Len(backoff_calls) :
        LET c == backoff_calls[i]
            d == NominalDelay(c.attempt)
        IN /\ 4 * (c.delay - d) <= d /\ 4 * (d - c.delay) <= d
           /\ c.attempt = 0 => c.delay >= 750 /\ c.delay <= 1250
           /\ c.delay <= 75000
    /\ \A i, j \in 1..Len(backoff_calls) :
        /\ backoff_calls[j].attempt = backoff_calls[i].attempt + 2
        /\ BASE_DELAY * (2 ^ backoff_calls[j].attempt) <= MAX_DELAY
        => backoff_calls[j].delay > backoff_calls[i].delay

\* the largest delay of attempt 3 against the smallest of attempt 5
C24_Witness ==
    /\ Len(backoff_calls) = 2
    /\ backoff_calls[1] = [attempt |-> 3, delay |-> 9992]
    /\ backoff_calls[2] = [attempt |-> 5, delay |-> 24000]

(***************************************************************************)
(* The pipeline control of the web service (FlaskSpec)                     *)
(***************************************************************************)
\* C25: what get_pipeline_status returned is a snapshot: the copy a request
\* holds is the status as it was at the call, up to the moment the request sends
\* it, whatever the workers and the other requests did to the status since.
C25_StatusIsSnapshot ==
    held # <<>> => held[1].status = held[1].taken

\* C26: the status is never reset while a run is in progress: a reset request
\* has succeeded only when no worker thread was started and not finished.
C26_NoResetDuringRun ==
    ret = <<Returned("reset", TRUE, "Pipeline status reset", 200)>> => live_workers = {}

\* C27: at most one worker thread is started and not finished.
C27_OneWorker == Cardinality(live_workers) <= 1

\* C28: after a cancel request returned (True, "Pipeline cancelled"), and until
\* the next run, stage, cancel or reset request returns, the status keeps stage
\* "Cancelled", error "Pipeline cancelled by user" and running False.
C28_CancelIsFinal ==
    ret = <<Returned("cancel", TRUE, "Pipeline cancelled", 200)>>
        => /\ pipeline_status.stage = "Cancelled"
           /\ pipeline_status.error = "Pipeline cancelled by user"
           /\ ~pipeline_status.running

====
